---------------------------- MODULE Spec2Model ----------------------------
(***************************************************************************)
(* polypure: order construction and dual-layer authentication.            *)
(*                                                                         *)
(* The module has three parts:                                             *)
(*   1. JavaScript numbers (IEEE-754 binary64, round-to-nearest-even)      *)
(*      over arbitrary-precision naturals, and the Number <-> string       *)
(*      conversions the order-amount calculator uses;                      *)
(*   2. the order-amount calculator (order-builder/helpers);               *)
(*   3. the credential lifecycle (auth/credentials, auth/headers,          *)
(*      auth/eip712) and the order builder's signer resolution.            *)
(***************************************************************************)
EXTENDS Integers, Naturals, Sequences, FiniteSets, TLC

\* The one element of a singleton.  In { f(v) : v \in {e} } the value of e is
\* computed before f uses it, which is the order of the source's statements.
Only(S) == CHOOSE v \in S : TRUE

(***************************************************************************)
(* Part 1a.  Naturals of any size: little-endian sequences of limbs in     *)
(* base 2^15 (a product of two limbs stays below 2^31).  <<>> is zero and  *)
(* the last limb of a number is never 0.                                   *)
(***************************************************************************)
Base == 2^15

Min(a, b) == IF a < b THEN a ELSE b

Max(a, b) == IF a > b THEN a ELSE b

Rest(s) == SubSeq(s, 2, Len(s))

RECURSIVE BNorm(_)
BNorm(a) ==
  IF a = <<>> THEN a
  ELSE IF a[Len(a)] = 0 THEN BNorm(SubSeq(a, 1, Len(a) - 1)) ELSE a

BFromInt(n) ==
  IF n = 0 THEN <<>>
  ELSE IF n < Base THEN <<n>>
  ELSE IF n < Base * Base THEN <<n % Base, n \div Base>>
  ELSE <<n % Base, (n \div Base) % Base, n \div (Base * Base)>>

RECURSIVE BAddC(_, _, _)
BAddC(a, b, c) ==
  IF a = <<>> /\ b = <<>> THEN (IF c = 0 THEN <<>> ELSE <<c>>)
  ELSE IF b = <<>> /\ c = 0 THEN a
  ELSE IF a = <<>> /\ c = 0 THEN b
  ELSE LET x == IF a = <<>> THEN 0 ELSE a[1]
           y == IF b = <<>> THEN 0 ELSE b[1]
           s == x + y + c
       IN  <<s % Base>> \o BAddC(Rest(a), Rest(b), s \div Base)

BAdd(a, b) == BAddC(a, b, 0)

\* a - b for a >= b
RECURSIVE BSubC(_, _, _)
BSubC(a, b, c) ==
  IF b = <<>> /\ c = 0 THEN a
  ELSE LET y == IF b = <<>> THEN 0 ELSE b[1]
           s == a[1] - y - c
       IN  IF s >= 0 THEN <<s>> \o BSubC(Rest(a), Rest(b), 0)
           ELSE <<s + Base>> \o BSubC(Rest(a), Rest(b), 1)

BSub(a, b) == BNorm(BSubC(a, b, 0))

\* -1, 0, 1 as a < b, a = b, a > b
RECURSIVE BCmpFrom(_, _, _)
BCmpFrom(a, b, i) ==
  IF i = 0 THEN 0
  ELSE IF a[i] < b[i] THEN -1
  ELSE IF a[i] > b[i] THEN 1
  ELSE BCmpFrom(a, b, i - 1)

BCmp(a, b) ==
  IF Len(a) < Len(b) THEN -1
  ELSE IF Len(a) > Len(b) THEN 1
  ELSE BCmpFrom(a, b, Len(a))

\* a * k + c for 0 <= k < Base
RECURSIVE BMulSmallC(_, _, _)
BMulSmallC(a, k, c) ==
  IF a = <<>> THEN (IF c = 0 THEN <<>> ELSE <<c>>)
  ELSE LET s == a[1] * k + c
       IN  <<s % Base>> \o BMulSmallC(Rest(a), k, s \div Base)

BMulSmall(a, k) == IF k = 0 THEN <<>> ELSE BMulSmallC(a, k, 0)

RECURSIVE BMul(_, _)
BMul(a, b) ==
  IF a = <<>> \/ b = <<>> THEN <<>>
  ELSE LET hi == BMul(a, Rest(b))
       IN  BAdd(BMulSmall(a, b[1]), IF hi = <<>> THEN <<>> ELSE <<0>> \o hi)

\* [q, r] with a = q * k + r, for 0 < k < Base: the high limbs are divided
\* first and their remainder is carried down, six limbs at a time (ts lists
\* the partial dividends from the highest limb down).
RECURSIVE BDivSmallRaw(_, _)
BDivSmallRaw(a, k) ==
  IF a = <<>> THEN [q |-> <<>>, r |-> 0]
  ELSE LET n  == Len(a)
           h  == IF n <= 6 THEN [q |-> <<>>, r |-> 0] ELSE BDivSmallRaw(SubSeq(a, 7, n), k)
           L(i) == IF i <= n THEN a[i] ELSE 0
           t6 == h.r * Base + L(6)
           t5 == (t6 % k) * Base + L(5)
           t4 == (t5 % k) * Base + L(4)
           t3 == (t4 % k) * Base + L(3)
           t2 == (t3 % k) * Base + L(2)
           t1 == (t2 % k) * Base + L(1)
           Out(ts) == [r |-> ts[7] % k,
                       q |-> [i \in 1..Min(n, 6) |-> ts[8 - i] \div k] \o h.q]
       IN  Out(<<h.r, t6, t5, t4, t3, t2, t1>>)

BDivSmall(a, k) ==
  LET Out(s) == [q |-> BNorm(s.q), r |-> s.r] IN Out(BDivSmallRaw(a, k))

Zeros(n) == [i \in 1..n |-> 0]

\* a * 2^n
BShl(a, n) ==
  IF a = <<>> THEN <<>>
  ELSE Zeros(n \div 15) \o BMulSmall(a, 2 ^ (n % 15))

\* floor(a / 2^n)
BShr(a, n) ==
  IF n \div 15 >= Len(a) THEN <<>>
  ELSE BDivSmall(SubSeq(a, (n \div 15) + 1, Len(a)), 2 ^ (n % 15)).q

\* a mod 2^n is not zero
RECURSIVE AnyNonZero(_, _)
AnyNonZero(a, i) ==
  IF i = 0 THEN FALSE ELSE IF a[i] # 0 THEN TRUE ELSE AnyNonZero(a, i - 1)

BLowNonZero(a, n) ==
  IF a = <<>> THEN FALSE
  ELSE LET w == n \div 15
       IN  IF w >= Len(a) THEN TRUE
           ELSE AnyNonZero(a, w) \/ (a[w + 1] % (2 ^ (n % 15))) # 0

\* bit n (0 = least significant) of a
BBit(a, n) ==
  IF n \div 15 >= Len(a) THEN 0
  ELSE (a[(n \div 15) + 1] \div (2 ^ (n % 15))) % 2

\* the number of bits of a limb
IntBitLen(n) == CHOOSE k \in 0..15 : n < 2 ^ k /\ (k = 0 \/ n >= 2 ^ (k - 1))

BitLen(a) == IF a = <<>> THEN 0 ELSE 15 * (Len(a) - 1) + IntBitLen(a[Len(a)])

(***************************************************************************)
(* Long division, a limb of the quotient at a time (Knuth's algorithm D    *)
(* with the estimate corrected by comparison).  d is normalised: its top  *)
(* limb is at least Base / 2.                                              *)
(***************************************************************************)
RECURSIVE BQuotDigit(_, _, _)
BQuotDigit(qh, r, d) ==
  IF qh > 0 /\ BCmp(BMulSmall(d, qh), r) > 0 THEN BQuotDigit(qh - 1, r, d) ELSE qh

\* One step: h is the quotient and remainder of the limbs above x.
BDivStep(h, x, d) ==
  IF h.r = <<>> /\ x = 0 THEN [q |-> <<0>> \o h.q, r |-> <<>>]
  ELSE LET r1  == <<x>> \o h.r
           n   == Len(d)
           top == (IF Len(r1) > n THEN r1[n + 1] * Base ELSE 0)
                  + (IF Len(r1) >= n THEN r1[n] ELSE 0)
           Out(qh) == [q |-> <<qh>> \o h.q, r |-> BSub(r1, BMulSmall(d, qh))]
       IN  Out(BQuotDigit(Min(Base - 1, top \div d[n]), r1, d))

RECURSIVE BDivRaw(_, _)
BDivRaw(u, d) ==
  IF Len(u) < Len(d) THEN [q |-> <<>>, r |-> u]
  ELSE BDivStep(BDivRaw(Rest(u), d), u[1], d)

\* [q, nz]: q = floor(u / d), nz = the remainder is not zero; d > 0
BDiv(u, d) ==
  IF Len(d) = 1
  THEN LET Out(s) == [q |-> s.q, nz |-> s.r # 0] IN Out(BDivSmall(u, d[1]))
  ELSE LET k == 15 - IntBitLen(d[Len(d)])
           Out(s) == [q |-> BNorm(s.q), nz |-> s.r # <<>>]
       IN  Out(BDivRaw(BShl(u, k), BShl(d, k)))

(***************************************************************************)
(* Part 1b.  A JavaScript number >= 0: zero, or m * 2^e with m of exactly  *)
(* 53 bits (IEEE-754 binary64, normal range).  Every operation rounds the  *)
(* exact result to the nearest such value, ties to the even mantissa.      *)
(* The calculator is specified for size >= 0 and price >= 0, so the sign,  *)
(* NaN and the infinities are left out.                                    *)
(***************************************************************************)
Zero == [m |-> <<>>, e |-> 0]

IsZero(x) == x.m = <<>>

\* The double nearest to the real number v with q*2^e <= v < (q+1)*2^e and
\* v = q*2^e exactly when ~sticky.  With sticky, q has at least 55 bits.
Round53(q, sticky, e) ==
  IF q = <<>> THEN Zero
  ELSE LET n     == BitLen(q)
           k     == n - 53
           guard == BBit(q, k - 1)
           rest  == BLowNonZero(q, k - 1) \/ sticky
       IN  IF n <= 53 THEN [m |-> BShl(q, 53 - n), e |-> e - (53 - n)]
           ELSE Only({ IF BitLen(m1) = 54
                       THEN [m |-> BShr(m1, 1), e |-> e + k + 1]
                       ELSE [m |-> m1, e |-> e + k] :
                       m1 \in { IF guard = 1 /\ (rest \/ BBit(m0, 0) = 1)
                                THEN BAdd(m0, <<1>>) ELSE m0 :
                                m0 \in { BShr(q, k) } } })

\* the Number of a natural (exact below 2^53)
FromNat(n) == Round53(n, FALSE, 0)

FromInt(i) == FromNat(BFromInt(i))

\* the double nearest to n / d, for naturals n and d > 0
RatToDouble(n, d) ==
  IF n = <<>> THEN Zero
  ELSE LET s == Max(0, 56 + BitLen(d) - BitLen(n))
       IN  Only({ Round53(r.q, r.nz, 0 - s) : r \in { BDiv(BShl(n, s), d) } })

\* a * b
FMul(a, b) ==
  IF IsZero(a) \/ IsZero(b) THEN Zero
  ELSE Round53(BMul(a.m, b.m), FALSE, a.e + b.e)

\* a / b for b > 0
FDiv(a, b) ==
  IF IsZero(a) THEN Zero
  ELSE Only({ Round53(r.q, r.nz, a.e - b.e - 55) : r \in { BDiv(BShl(a.m, 55), b.m) } })

\* -1, 0, 1 as a < b, a = b, a > b
FCmp(a, b) ==
  IF IsZero(a) THEN (IF IsZero(b) THEN 0 ELSE -1)
  ELSE IF IsZero(b) THEN 1
  ELSE IF a.e < b.e THEN -1
  ELSE IF a.e > b.e THEN 1
  ELSE BCmp(a.m, b.m)

FLe(a, b) == FCmp(a, b) <= 0

\* the natural floor(x)
FloorNat(x) ==
  IF IsZero(x) THEN <<>>
  ELSE IF x.e >= 0 THEN BShl(x.m, x.e)
  ELSE BShr(x.m, 0 - x.e)

\* Math.floor(x)
MathFloor(x) == IF IsZero(x) \/ x.e >= 0 THEN x ELSE FromNat(FloorNat(x))

\* the largest double below x > 0 (x one unit in the last place down)
Pred(x) ==
  IF x.m = BShl(<<1>>, 52)
  THEN [m |-> BSub(BShl(<<1>>, 53), <<1>>), e |-> x.e - 1]
  ELSE [m |-> BSub(x.m, <<1>>), e |-> x.e]

RECURSIVE Pow10(_)
Pow10(k) == IF k <= 9 THEN BFromInt(10 ^ k) ELSE BMul(BFromInt(10 ^ 9), Pow10(k - 9))

\* Math.pow(10, k) for 0 <= k <= 22, where the power is exact
MathPow10(k) == FromNat(Pow10(k))

(***************************************************************************)
(* Part 1c.  Strings are sequences of characters, so that formatting a     *)
(* number and parsing it back are two computations.                        *)
(***************************************************************************)
DigitChar(d) == <<"0", "1", "2", "3", "4", "5", "6", "7", "8", "9">>[d + 1]

IsDigit(c) == c \in {"0", "1", "2", "3", "4", "5", "6", "7", "8", "9"}

CharDigit(c) ==
  CASE c = "0" -> 0 [] c = "1" -> 1 [] c = "2" -> 2 [] c = "3" -> 3
    [] c = "4" -> 4 [] c = "5" -> 5 [] c = "6" -> 6 [] c = "7" -> 7
    [] c = "8" -> 8 [] c = "9" -> 9

\* the four decimal digits of r < 10000
Digits4(r) ==
  <<DigitChar(r \div 1000), DigitChar((r \div 100) % 10), DigitChar((r \div 10) % 10),
    DigitChar(r % 10)>>

\* n divided by 10000 c times over: the quotients and remainders, the first
\* division first
RECURSIVE DivideBy10000(_, _)
DivideBy10000(n, c) ==
  IF c = 0 THEN <<>>
  ELSE LET Then(s) == <<s>> \o DivideBy10000(s.q, c - 1) IN Then(BDivSmall(n, 10000))

\* the digits of five divisions by 10000, the highest first
Digits20(ss) ==
  Digits4(ss[5].r) \o Digits4(ss[4].r) \o Digits4(ss[3].r) \o Digits4(ss[2].r)
    \o Digits4(ss[1].r)

\* the decimal digits of a natural, twenty at a time, with leading zeros
RECURSIVE DecChars(_)
DecChars(n) ==
  IF n = <<>> THEN <<>>
  ELSE LET Out(ss) == DecChars(ss[5].q) \o Digits20(ss) IN Out(DivideBy10000(n, 5))

\* s without its leading "0"s
TrimZeros(s) ==
  SubSeq(s, CHOOSE i \in 1..Len(s) : s[i] # "0" /\ \A j \in 1..(i - 1) : s[j] = "0", Len(s))

\* the decimal numeral of a natural: no leading zeros, "0" for zero
NatToString(n) == IF n = <<>> THEN <<"0">> ELSE TrimZeros(DecChars(n))

\* the natural the digits s[lo..hi] denote, at most four of them
SmallNat(s, lo, hi) ==
  LET d(k) == IF hi - k >= lo THEN CharDigit(s[hi - k]) ELSE 0
  IN  d(0) + 10 * d(1) + 100 * d(2) + 1000 * d(3)

\* the natural the digits s[lo..hi] denote
RECURSIVE DigitsToNat(_, _, _)
DigitsToNat(s, lo, hi) ==
  IF hi - lo < 4 THEN BFromInt(SmallNat(s, lo, hi))
  ELSE LET mid == (lo + hi) \div 2
       IN  Only({ BAdd(BMul(high, Pow10(hi - mid)), low) :
                  high \in { DigitsToNat(s, lo, mid) }, low \in { DigitsToNat(s, mid + 1, hi) } })

\* the natural a string of digits spells
Units(s) == DigitsToNat(s, 1, Len(s))

IsDecimalInteger(s) == Len(s) >= 1 /\ \A i \in 1..Len(s) : IsDigit(s[i])

\* the length of the longest prefix of s from position i made of digits
DigitRun(s, i) ==
  IF i > Len(s) THEN 0
  ELSE CHOOSE k \in 0..(Len(s) - i + 1) :
         /\ \A j \in i..(i + k - 1) : IsDigit(s[j])
         /\ (i + k > Len(s) \/ ~IsDigit(s[i + k]))

\* Number.prototype.toString of an integer-valued number: its decimal digits
\* below 10^21, exponential notation from there on.
ExponentialString(d) == <<d[1], "e", "+">> \o NatToString(BFromInt(Len(d) - 1))

IntegerString(n) ==
  IF BCmp(n, Pow10(21)) < 0 THEN NatToString(n) ELSE ExponentialString(NatToString(n))

NumberToString(x) == IntegerString(FloorNat(x))

\* s padded on the left with "0" to at least n characters
PadZeros(s, n) == IF Len(s) >= n THEN s ELSE [i \in 1..(n - Len(s)) |-> "0"] \o s

\* Number.prototype.toFixed(d) for 0 <= x < 10^21 and d >= 1: the integer n
\* with n / 10^d nearest to x (the larger n of two), written with d decimals.
ToFixedNat(x, d) ==
  IF IsZero(x) THEN <<>>
  ELSE LET Scaled(n) ==
             IF x.e >= 0 THEN BShl(n, x.e)
             ELSE BShr(BAdd(n, BShl(<<1>>, (0 - x.e) - 1)), 0 - x.e)
       IN  Scaled(BMul(x.m, Pow10(d)))

\* the digits s with a point before the last d of them
PointBefore(s, d) ==
  SubSeq(s, 1, Len(s) - d) \o <<".">> \o SubSeq(s, Len(s) - d + 1, Len(s))

toFixed(x, d) == PointBefore(PadZeros(NatToString(ToFixedNat(x, d)), d + 1), d)

\* parseFloat of a string "ddd" or "ddd.ddd": the double nearest to the
\* decimal it spells (the longest such prefix is read).
parseFloat(s) ==
  LET ni == DigitRun(s, 1)
      nf == IF ni < Len(s) /\ s[ni + 1] = "." THEN DigitRun(s, ni + 2) ELSE 0
  IN  RatToDouble(Units(SubSeq(s, 1, ni) \o SubSeq(s, ni + 2, ni + 1 + nf)), Pow10(nf))

(***************************************************************************)
(* Part 2.  The order-amount calculator (order-builder/helpers and         *)
(* order-builder/constants).                                               *)
(***************************************************************************)
TickSize == {"0.1", "0.01", "0.001", "0.0001"}

\* the characters of a TickSize
TickChars(tickSize) ==
  CASE tickSize = "0.1"    -> <<"0", ".", "1">>
    [] tickSize = "0.01"   -> <<"0", ".", "0", "1">>
    [] tickSize = "0.001"  -> <<"0", ".", "0", "0", "1">>
    [] tickSize = "0.0001" -> <<"0", ".", "0", "0", "0", "1">>

\* ROUNDING_CONFIG[tickSize].decimals
ROUNDING_CONFIG(tickSize) ==
  CASE tickSize = "0.1"    -> 1
    [] tickSize = "0.01"   -> 2
    [] tickSize = "0.001"  -> 3
    [] tickSize = "0.0001" -> 4

COLLATERAL_TOKEN_DECIMALS == 6

\* (the parameters are the source's value and decimals)
roundDown(value, nDecimals) ==
  Only({ Only({ FDiv(floored, factor) :
                floored \in { MathFloor(scaled) :
                scaled \in { FMul(value, factor) } } }) :
         factor \in { MathPow10(nDecimals) } })

toChainUnits(amount) ==
  Only({ Only({ NumberToString(floored) :
                floored \in { MathFloor(scaled) :
                scaled \in { FMul(amount, factor) } } }) :
         factor \in { MathPow10(COLLATERAL_TOKEN_DECIMALS) } })

alignPrice(price, tickSize) ==
  LET decimals == ROUNDING_CONFIG(tickSize)
  IN  Only({ Only({ parseFloat(fixed) :
                    fixed \in { toFixed(aligned, decimals) :
                    aligned \in { FMul(MathFloor(ticks), tick) :
                    ticks \in { FDiv(price, tick) } } } }) :
             tick \in { parseFloat(TickChars(tickSize)) } })

\* calculateBuyAmounts with the USDC leg left as it is, not rounded down
BuyAmountsNotRounded(size, price, tickSize) ==
  [rawMakerAmt |-> toChainUnits(FMul(size, alignPrice(price, tickSize))),
   rawTakerAmt |-> toChainUnits(size)]

\* calculateSellAmounts with the price as given, not aligned to the tick
SellAmountsNotAligned(size, price, tickSize) ==
  [rawMakerAmt |-> toChainUnits(size),
   rawTakerAmt |-> toChainUnits(roundDown(FMul(size, price), ROUNDING_CONFIG(tickSize)))]

calculateBuyAmounts(size, price, tickSize) ==
  LET decimals    == ROUNDING_CONFIG(tickSize)
      takerAmount == size
  IN  Only({ [rawMakerAmt |-> toChainUnits(roundedMakerAmount),
              rawTakerAmt |-> toChainUnits(takerAmount)] :
             roundedMakerAmount \in { roundDown(makerAmount, decimals) :
             makerAmount \in { FMul(size, alignedPrice) :
             alignedPrice \in { alignPrice(price, tickSize) } } } })

calculateSellAmounts(size, price, tickSize) ==
  LET decimals    == ROUNDING_CONFIG(tickSize)
      makerAmount == size
  IN  Only({ [rawMakerAmt |-> toChainUnits(makerAmount),
              rawTakerAmt |-> toChainUnits(roundedTakerAmount)] :
             roundedTakerAmount \in { roundDown(takerAmount, decimals) :
             takerAmount \in { FMul(size, alignedPrice) :
             alignedPrice \in { alignPrice(price, tickSize) } } } })

\* calculateMarketBuyAmounts dividing by the price whatever it is: amount / 0
\* is Infinity, or NaN for 0 / 0, and so are its floor and its chain units
MarketBuyAmountsDividingByZero(amount, price, tickSize) ==
  [rawMakerAmt |-> toChainUnits(amount),
   rawTakerAmt |-> IF FCmp(price, Zero) > 0
                   THEN toChainUnits(roundDown(FDiv(amount, price), ROUNDING_CONFIG(tickSize)))
                   ELSE IF IsZero(amount) THEN <<"N", "a", "N">>
                   ELSE <<"I", "n", "f", "i", "n", "i", "t", "y">>]

\* calculateMarketBuyAmounts with the token leg left as it is, not rounded down
MarketBuyAmountsNotRounded(amount, price, tickSize) ==
  [rawMakerAmt |-> toChainUnits(amount),
   rawTakerAmt |-> toChainUnits(IF FCmp(price, Zero) > 0 THEN FDiv(amount, price) ELSE Zero)]

calculateMarketBuyAmounts(amount, price, tickSize) ==
  LET decimals    == ROUNDING_CONFIG(tickSize)
      makerAmount == amount
  IN  Only({ [rawMakerAmt |-> toChainUnits(makerAmount),
              rawTakerAmt |-> toChainUnits(roundedTakerAmount)] :
             roundedTakerAmount \in { roundDown(takerAmount, decimals) :
             takerAmount \in { IF FCmp(price, Zero) > 0 THEN FDiv(amount, price) ELSE Zero } } })

(***************************************************************************)
(* Part 3.  Signers, L1 headers and the credential exchange (auth/eip712,  *)
(* auth/headers, auth/credentials, http).                                  *)
(*                                                                         *)
(* undefined is None.  A call that can throw yields a record: ok, the      *)
(* value returned or the error thrown, and signed, the number of           *)
(* signTypedData requests it made.                                         *)
(***************************************************************************)
None == "none"

NoValue == [kind |-> None]

NoError == [name |-> None, message |-> None, code |-> None, status |-> 0]

Error(message) == [name |-> "Error", message |-> message, code |-> None, status |-> 0]

\* what fetch rejects with when the network cannot be reached
FetchFailed == [name |-> "TypeError", message |-> "fetch failed", code |-> None, status |-> 0]

\* what response.json() rejects with when the body is not JSON
InvalidJson == [name |-> "SyntaxError", message |-> "Unexpected token", code |-> None,
                status |-> 0]

\* what a wallet rejects a signing request with
UserRejected == [name |-> "UserRejectedRequestError", message |-> "User rejected the request.",
                 code |-> None, status |-> 0]

PolymarketError(message, code, status) ==
  [name |-> "PolymarketError", message |-> message, code |-> code, status |-> status]

Return(v, n) == [ok |-> TRUE, value |-> v, error |-> NoError, signed |-> n]

Throw(e, n) == [ok |-> FALSE, value |-> NoValue, error |-> e, signed |-> n]

\* viem's two kinds of signer
PrivateKeyAccount(address) ==
  [type |-> "PrivateKeyAccount", address |-> address, account |-> None]

WalletClient(account) == [type |-> "WalletClient", address |-> None, account |-> account]

Signers == { PrivateKeyAccount("0xA1"), WalletClient("0xB2"), WalletClient(None) }

\* getSignerAddress falling back on the zero address instead of throwing
getSignerAddressWithDefault(signer) ==
  IF signer.address # None THEN Return([address |-> signer.address], 0)
  ELSE IF signer.account # None THEN Return([address |-> signer.account], 0)
  ELSE Return([address |-> "0x0000000000000000000000000000000000000000"], 0)

getSignerAddress(signer) ==
  IF signer.address # None THEN Return([address |-> signer.address], 0)
  ELSE IF signer.account # None THEN Return([address |-> signer.account], 0)
  ELSE Throw(Error("Signer must have an address"), 0)

CLOB_AUTH_DOMAIN == [name |-> "ClobAuthDomain", version |-> "1", chainId |-> 137]

\* the signature of account over the typed data
Signature(account, domain, primaryType, message) ==
  [account |-> account, domain |-> domain, primaryType |-> primaryType, message |-> message]

\* signTypedData: a private key signs locally; a wallet client asks the wallet,
\* which signs (walletSigns) or rejects the request
signClobAuth(signer, timestamp, nonce, walletSigns) ==
  LET resolved == getSignerAddress(signer)
      Sign(message) ==
        IF signer.type = "PrivateKeyAccount"
        THEN Return(Signature(signer.address, CLOB_AUTH_DOMAIN, "ClobAuth", message), 1)
        ELSE IF signer.account = None
        THEN Throw(Error("WalletClient must have an account configured"), 0)
        ELSE IF walletSigns
        THEN Return(Signature(signer.account, CLOB_AUTH_DOMAIN, "ClobAuth", message), 1)
        ELSE Throw(UserRejected, 1)
  IN  IF ~resolved.ok THEN resolved
      ELSE Sign([address   |-> resolved.value.address,
                 timestamp |-> NumberToString(timestamp),
                 nonce     |-> FloorNat(nonce),
                 message   |-> "This message attests that I control the given wallet"])

\* Math.floor(Math.random() * 2 ** 32), random being what Math.random() gave
generateNonce(random) == MathFloor(FMul(random, FromNat(BShl(<<1>>, 32))))

\* Date.now(), clock being the time in milliseconds
getTimestamp(clock) == FromInt(clock)

\* what createL1Headers returns once signClobAuth and getSignerAddress have
\* settled
L1Headers(ts, n, signature, address) ==
  IF ~signature.ok THEN signature
  ELSE IF ~address.ok THEN Throw(address.error, signature.signed)
  ELSE Return([POLY_ADDRESS   |-> address.value.address,
               POLY_SIGNATURE |-> signature.value,
               POLY_TIMESTAMP |-> NumberToString(ts),
               POLY_NONCE     |-> NumberToString(n)], signature.signed)

\* createL1Headers putting the timestamp and the nonce of the caller in the
\* headers, whatever was signed
createL1HeadersOfArguments(signer, nonce, timestamp, clock, random, walletSigns) ==
  LET Signed(ts, n) ==
        L1Headers(IF timestamp # <<>> THEN timestamp[1] ELSE ts,
                  IF nonce # <<>> THEN nonce[1] ELSE n,
                  signClobAuth(signer, ts, n, walletSigns), getSignerAddress(signer))
  IN  Signed(IF timestamp # <<>> /\ ~IsZero(timestamp[1]) THEN timestamp[1]
             ELSE getTimestamp(clock),
             IF nonce # <<>> /\ ~IsZero(nonce[1]) THEN nonce[1] ELSE generateNonce(random))

\* nonce and timestamp are <<>> when they are left out and <<x>> for the
\* Number x (x || y takes y for undefined and for 0 alike)
createL1Headers(signer, nonce, timestamp, clock, random, walletSigns) ==
  LET Signed(ts, n) ==
        L1Headers(ts, n, signClobAuth(signer, ts, n, walletSigns), getSignerAddress(signer))
  IN  Signed(IF timestamp # <<>> /\ ~IsZero(timestamp[1]) THEN timestamp[1]
             ELSE getTimestamp(clock),
             IF nonce # <<>> /\ ~IsZero(nonce[1]) THEN nonce[1] ELSE generateNonce(random))

\* The remote service and the network, as httpRequest sees them: fetch rejects
\* ("unreachable"), or a response arrives with a status and a body.
Responses ==
  { [kind |-> "unreachable", status |-> 0, body |-> NoValue] }
    \cup { [kind |-> "response", status |-> 200, body |-> b] :
           b \in { [apiKey |-> "key1", secret |-> "secret1", passphrase |-> "pass1"],
                   [apiKey |-> "key2", secret |-> "secret2", passphrase |-> "pass2"] } }
    \cup { [kind |-> "response", status |-> 200, body |-> [text |-> "<html>"]] }
    \cup { [kind |-> "response", status |-> st, body |-> [text |-> "error"]] :
           st \in {400, 500} }

HttpErrorMessage(status) ==
  CASE status = 400 -> "HTTP 400: error"
    [] status = 500 -> "HTTP 500: error"
    [] OTHER        -> "HTTP"

\* httpRequest catching what fetch rejects with and throwing its own error
httpRequestWrappingErrors(response) ==
  IF response.kind = "unreachable"
  THEN Throw(PolymarketError("fetch failed", "NETWORK_ERROR", 0), 0)
  ELSE IF ~(response.status >= 200 /\ response.status <= 299)
  THEN Throw(PolymarketError(HttpErrorMessage(response.status), "HTTP_ERROR", response.status), 0)
  ELSE IF "text" \in DOMAIN response.body THEN Throw(InvalidJson, 0)
  ELSE Return(response.body, 0)

\* httpRequest once fetch has settled with the response
httpRequest(response) ==
  IF response.kind = "unreachable" THEN Throw(FetchFailed, 0)
  ELSE IF ~(response.status >= 200 /\ response.status <= 299)
  THEN Throw(PolymarketError(HttpErrorMessage(response.status), "HTTP_ERROR", response.status), 0)
  ELSE IF "text" \in DOMAIN response.body THEN Throw(InvalidJson, 0)
  ELSE Return(response.body, 0)

\* createApiKey and deriveApiKey: the credentials of a parsed response
ApiCredentials(response) ==
  [key |-> response.apiKey, secret |-> response.secret, passphrase |-> response.passphrase]

\* createApiKey, from its call to its request: the headers are built and the
\* POST is handed to httpRequest, or building the headers throws
createApiKey(signer, clock, random, walletSigns) ==
  LET Request(headers) ==
        IF ~headers.ok THEN headers
        ELSE Return([method |-> "POST", path |-> "/auth/api-key", headers |-> headers.value],
                    headers.signed)
  IN  Request(createL1Headers(signer, <<>>, <<>>, clock, random, walletSigns))

\* deriveApiKey, from its call to its request
deriveApiKey(signer, clock, random, walletSigns) ==
  LET Request(headers) ==
        IF ~headers.ok THEN headers
        ELSE Return([method |-> "GET", path |-> "/auth/derive-api-key",
                     headers |-> headers.value], headers.signed)
  IN  Request(createL1Headers(signer, <<>>, <<>>, clock, random, walletSigns))

\* createApiKey and deriveApiKey once httpRequest has settled
ApiKeyResult(response) ==
  LET parsed == httpRequest(response)
  IN  IF parsed.ok THEN Return(ApiCredentials(parsed.value), 0) ELSE parsed

\* createOrDeriveApiKey calling deriveApiKey whatever createApiKey did
TryCreateApiKeyThenDerive(r) ==
  [pc |-> "deriveApiKey", value |-> NoValue, error |-> NoError]

\* createOrDeriveApiKey once createApiKey has settled with r: its value is
\* returned, or what it threw is caught and deriveApiKey is called
TryCreateApiKey(r) ==
  IF r.ok THEN [pc |-> "returned", value |-> r.value, error |-> NoError]
  ELSE [pc |-> "deriveApiKey", value |-> NoValue, error |-> NoError]

\* createOrDeriveApiKey starting over when deriveApiKey fails
CatchDeriveApiKeyAndRetry(r) ==
  IF r.ok THEN [pc |-> "returned", value |-> r.value, error |-> NoError]
  ELSE [pc |-> "createApiKey", value |-> NoValue, error |-> NoError]

\* createOrDeriveApiKey once deriveApiKey has settled with r
CatchDeriveApiKey(r) ==
  IF r.ok THEN [pc |-> "returned", value |-> r.value, error |-> NoError]
  ELSE [pc |-> "threw", value |-> NoValue, error |-> r.error]

(***************************************************************************)
(* The order builder (order-builder/builder, order-builder/helpers).       *)
(* An optional parameter is a sequence: <<>> when left out, <<v>> when     *)
(* given; an optional string is None when left out.                        *)
(***************************************************************************)
EXCHANGE_ADDRESS == "0x4bFb41d5B3570DeFd03C39a9A4D8dE6Bd8B8982E"

NEG_RISK_EXCHANGE_ADDRESS == "0xC5d563A36AE78145C45a50134d48A1215220f80a"

CHAIN_ID == 137

ORDER_DOMAIN ==
  [name |-> "Exchange", version |-> "1", chainId |-> CHAIN_ID,
   verifyingContract |-> EXCHANGE_ADDRESS]

DEFAULT_FEE_RATE_BPS == 50

DEFAULT_TAKER == "0x0000000000000000000000000000000000000000"

\* Math.floor(Date.now() / 1000) + 60 * 60 * 24 * 365, taken once, when the
\* module is loaded (loadTime, in milliseconds)
DEFAULT_EXPIRATION(loadTime) ==
  FromNat(BAdd(FloorNat(MathFloor(FDiv(FromInt(loadTime), FromInt(1000)))),
               BFromInt(60 * 60 * 24 * 365)))

\* enum OrderSide
OrderSide(side) == IF side = "BUY" THEN 0 ELSE 1

\* SignatureType.MAGIC
SignatureTypeMAGIC == 1

\* generateSalt when crypto.getRandomValues is never called: the 32 bytes of a
\* new Uint8Array are zero
generateSaltOfNewArray(bytes) == <<"0">>

\* byte i (0 the least significant) of 32 random bytes, the first of which is
\* the most significant
ByteAt(bytes, i) == IF i >= 0 /\ i <= 31 THEN bytes[32 - i] ELSE 0

\* The 256-bit number the bytes spell, most significant byte first, as a
\* decimal string: limb j holds bits 15j .. 15j+14 of the number.
generateSalt(bytes) ==
  NatToString(BNorm(
    [j \in 1..18 |->
       LET low == (15 * (j - 1)) \div 8
           window == ByteAt(bytes, low + 2) * 65536 + ByteAt(bytes, low + 1) * 256
                       + ByteAt(bytes, low)
       IN  (window \div (2 ^ ((15 * (j - 1)) % 8))) % Base]))

\* the value of a hexadecimal digit, 16 for any other character
HexValue(c) ==
  LET lower == <<"0", "1", "2", "3", "4", "5", "6", "7", "8", "9", "a", "b", "c", "d", "e", "f">>
      upper == <<"0", "1", "2", "3", "4", "5", "6", "7", "8", "9", "A", "B", "C", "D", "E", "F">>
  IN  IF \E i \in 1..16 : lower[i] = c THEN (CHOOSE i \in 1..16 : lower[i] = c) - 1
      ELSE IF \E i \in 1..16 : upper[i] = c THEN (CHOOSE i \in 1..16 : upper[i] = c) - 1
      ELSE 16

\* the natural the hexadecimal digits s[3..hi] spell
RECURSIVE HexToNat(_, _)
HexToNat(s, hi) ==
  IF hi < 3 THEN <<>>
  ELSE BAdd(BMulSmall(HexToNat(s, hi - 1), 16), BFromInt(HexValue(s[hi])))

\* A BigInt is held as its decimal numeral, without leading zeros.
\* BigInt(s) of a string: the integer a decimal numeral spells (0 for the
\* empty string) or a hexadecimal numeral after "0x" spells; anything else
\* (such as "1e+21") is a SyntaxError
BigIntOfString(s) ==
  IF \A i \in 1..Len(s) : IsDigit(s[i])
  THEN Return([n |-> IF \A i \in 1..Len(s) : s[i] = "0" THEN <<"0">>
                     ELSE SubSeq(s, CHOOSE i \in 1..Len(s) :
                                      s[i] # "0" /\ \A j \in 1..(i - 1) : s[j] = "0",
                                 Len(s))], 0)
  ELSE IF /\ Len(s) >= 3 /\ s[1] = "0" /\ s[2] \in {"x", "X"}
          /\ \A i \in 3..Len(s) : HexValue(s[i]) < 16
  THEN Return([n |-> NatToString(HexToNat(s, Len(s)))], 0)
  ELSE Throw([name |-> "SyntaxError", message |-> "Cannot convert to a BigInt",
              code |-> None, status |-> 0], 0)

\* BigInt(x) of a Number that drops the fraction of x instead of throwing
BigIntOfNumberTruncating(x) == Return([n |-> NatToString(FloorNat(x))], 0)

\* BigInt(x) of a Number: x itself when it is an integer, a RangeError if not
BigIntOfNumber(x) ==
  IF MathFloor(x) = x THEN Return([n |-> NatToString(FloorNat(x))], 0)
  ELSE Throw([name |-> "RangeError", message |-> "not an integer",
              code |-> None, status |-> 0], 0)

signOrder(signer, domain, order, walletSigns) ==
  IF signer.type = "PrivateKeyAccount"
  THEN Return(Signature(signer.address, domain, "Order", order), 1)
  ELSE IF signer.account = None
  THEN Throw(Error("WalletClient must have an account configured"), 0)
  ELSE IF walletSigns
  THEN Return(Signature(signer.account, domain, "Order", order), 1)
  ELSE Throw(UserRejected, 1)

\* OrderValues with x || default for the optional Numbers: 0 counts as left out
OrderValuesOrDefaults(params, signerAddress, saltBytes, nonceBytes, loadTime) ==
  [feeRateBps    |-> IF params.feeRateBps = <<>> \/ IsZero(params.feeRateBps[1]) THEN FromInt(DEFAULT_FEE_RATE_BPS)
                     ELSE params.feeRateBps[1],
   expiration    |-> IF params.expiration = <<>> \/ IsZero(params.expiration[1]) THEN DEFAULT_EXPIRATION(loadTime)
                     ELSE params.expiration[1],
   taker         |-> IF params.taker = None THEN DEFAULT_TAKER ELSE params.taker,
   signatureType |-> IF params.signatureType = <<>> \/ IsZero(params.signatureType[1]) THEN FromInt(SignatureTypeMAGIC)
                     ELSE params.signatureType[1],
   negRisk       |-> IF params.negRisk = <<>> THEN FALSE ELSE params.negRisk[1],
   signerAddress |-> signerAddress,
   makerAddress  |-> IF params.funderAddress # None /\ params.funderAddress # ""
                     THEN params.funderAddress ELSE signerAddress,
   amounts       |-> IF params.side = "BUY"
                     THEN calculateBuyAmounts(params.size,
                            alignPrice(params.price, params.tickSize), params.tickSize)
                     ELSE calculateSellAmounts(params.size,
                            alignPrice(params.price, params.tickSize), params.tickSize),
   salt          |-> generateSalt(saltBytes),
   orderNonce    |-> IF params.nonce # <<>> THEN params.nonce ELSE generateSalt(nonceBytes)]

\* OrderValues with the funder address left aside: the signer is the maker
OrderValuesWithoutFunder(params, signerAddress, saltBytes, nonceBytes, loadTime) ==
  [feeRateBps    |-> IF params.feeRateBps = <<>> THEN FromInt(DEFAULT_FEE_RATE_BPS)
                     ELSE params.feeRateBps[1],
   expiration    |-> IF params.expiration = <<>> THEN DEFAULT_EXPIRATION(loadTime)
                     ELSE params.expiration[1],
   taker         |-> IF params.taker = None THEN DEFAULT_TAKER ELSE params.taker,
   signatureType |-> IF params.signatureType = <<>> THEN FromInt(SignatureTypeMAGIC)
                     ELSE params.signatureType[1],
   negRisk       |-> IF params.negRisk = <<>> THEN FALSE ELSE params.negRisk[1],
   signerAddress |-> signerAddress,
   makerAddress  |-> signerAddress,
   amounts       |-> IF params.side = "BUY"
                     THEN calculateBuyAmounts(params.size,
                            alignPrice(params.price, params.tickSize), params.tickSize)
                     ELSE calculateSellAmounts(params.size,
                            alignPrice(params.price, params.tickSize), params.tickSize),
   salt          |-> generateSalt(saltBytes),
   orderNonce    |-> IF params.nonce # <<>> THEN params.nonce ELSE generateSalt(nonceBytes)]

\* params: signer, tokenId, price, size, side, tickSize and the optional
\* feeRateBps, nonce, expiration, taker, signatureType, funderAddress, negRisk.
\* saltBytes and nonceBytes are what crypto.getRandomValues gives the two
\* calls of generateSalt; loadTime is when the module was loaded.
\* The values buildSignedOrder works with, before any of them is converted:
\* the optional parameters with their defaults, the two addresses, the
\* amounts, the salt and the nonce.
OrderValues(params, signerAddress, saltBytes, nonceBytes, loadTime) ==
  [feeRateBps    |-> IF params.feeRateBps = <<>> THEN FromInt(DEFAULT_FEE_RATE_BPS)
                     ELSE params.feeRateBps[1],
   expiration    |-> IF params.expiration = <<>> THEN DEFAULT_EXPIRATION(loadTime)
                     ELSE params.expiration[1],
   taker         |-> IF params.taker = None THEN DEFAULT_TAKER ELSE params.taker,
   signatureType |-> IF params.signatureType = <<>> THEN FromInt(SignatureTypeMAGIC)
                     ELSE params.signatureType[1],
   negRisk       |-> IF params.negRisk = <<>> THEN FALSE ELSE params.negRisk[1],
   signerAddress |-> signerAddress,
   makerAddress  |-> IF params.funderAddress # None /\ params.funderAddress # ""
                     THEN params.funderAddress ELSE signerAddress,
   amounts       |-> IF params.side = "BUY"
                     THEN calculateBuyAmounts(params.size,
                            alignPrice(params.price, params.tickSize), params.tickSize)
                     ELSE calculateSellAmounts(params.size,
                            alignPrice(params.price, params.tickSize), params.tickSize),
   salt          |-> generateSalt(saltBytes),
   orderNonce    |-> IF params.nonce # <<>> THEN params.nonce ELSE generateSalt(nonceBytes)]

\* the seven BigInt conversions of the order struct, in the order they are made
OrderBigInts(params, v) ==
  <<BigIntOfString(v.salt), BigIntOfString(params.tokenId),
    BigIntOfString(v.amounts.rawMakerAmt), BigIntOfString(v.amounts.rawTakerAmt),
    BigIntOfNumber(v.expiration), BigIntOfString(v.orderNonce), BigIntOfNumber(v.feeRateBps)>>

\* the order struct that is signed
OrderStruct(params, v, bigints) ==
  [salt          |-> bigints[1].value.n,
   maker         |-> v.makerAddress,
   signer        |-> v.signerAddress,
   taker         |-> v.taker,
   tokenId       |-> bigints[2].value.n,
   makerAmount   |-> bigints[3].value.n,
   takerAmount   |-> bigints[4].value.n,
   expiration    |-> bigints[5].value.n,
   nonce         |-> bigints[6].value.n,
   feeRateBps    |-> bigints[7].value.n,
   side          |-> OrderSide(params.side),
   signatureType |-> v.signatureType]

\* what buildSignedOrder returns once signOrder has settled with signature
SignedOrder(params, v, order, signature) ==
  IF ~signature.ok THEN signature
  ELSE Return([salt          |-> v.salt,
               maker         |-> v.makerAddress,
               signer        |-> v.signerAddress,
               taker         |-> v.taker,
               tokenId       |-> params.tokenId,
               makerAmount   |-> v.amounts.rawMakerAmt,
               takerAmount   |-> v.amounts.rawTakerAmt,
               expiration    |-> NumberToString(v.expiration),
               nonce         |-> v.orderNonce,
               feeRateBps    |-> NumberToString(v.feeRateBps),
               side          |-> NumberToString(FromInt(order.side)),
               signatureType |-> NumberToString(v.signatureType),
               signature     |-> signature.value], signature.signed)

\* SignOrderStruct signing every order under ORDER_DOMAIN as it is
SignOrderStructOnExchange(params, v, bigints, walletSigns) ==
  IF \E i \in 1..7 : ~bigints[i].ok
  THEN bigints[CHOOSE i \in 1..7 : ~bigints[i].ok /\ \A j \in 1..(i - 1) : bigints[j].ok]
  ELSE LET Signed(order) ==
             SignedOrder(params, v, order,
               signOrder(params.signer, ORDER_DOMAIN, order, walletSigns))
       IN  Signed(OrderStruct(params, v, bigints))

\* the order struct is built (a BigInt conversion that throws ends the call)
\* and signed under the domain of the exchange
SignOrderStruct(params, v, bigints, walletSigns) ==
  IF \E i \in 1..7 : ~bigints[i].ok
  THEN bigints[CHOOSE i \in 1..7 : ~bigints[i].ok /\ \A j \in 1..(i - 1) : bigints[j].ok]
  ELSE LET Signed(order) ==
             SignedOrder(params, v, order,
               signOrder(params.signer,
                         [ORDER_DOMAIN EXCEPT !.verifyingContract =
                            IF v.negRisk THEN NEG_RISK_EXCHANGE_ADDRESS ELSE EXCHANGE_ADDRESS],
                         order, walletSigns))
       IN  Signed(OrderStruct(params, v, bigints))

BuildOrder(params, v, walletSigns) ==
  SignOrderStruct(params, v, OrderBigInts(params, v), walletSigns)

buildSignedOrder(params, saltBytes, nonceBytes, walletSigns, loadTime) ==
  LET resolved == getSignerAddress(params.signer)
  IN  IF ~resolved.ok THEN resolved
      ELSE BuildOrder(params,
             OrderValues(params, resolved.value.address, saltBytes, nonceBytes, loadTime),
             walletSigns)

(***************************************************************************)
(* L2 request signing: HMAC-SHA256 over timestamp, method, path and body   *)
(* with the base64 secret of the credentials.                              *)
(***************************************************************************)
\* the printable ASCII characters, from the space (code 32) to the tilde
\* (code 126); the backslash, code 92, and the backtick, code 96, are
\* spelled out
Ascii ==
  <<" ", "!", "\"", "#", "$", "%", "&", "'", "(", ")", "*", "+", ",", "-", ".", "/",
    "0", "1", "2", "3", "4", "5", "6", "7", "8", "9", ":", ";", "<", "=", ">", "?",
    "@", "A", "B", "C", "D", "E", "F", "G", "H", "I", "J", "K", "L", "M", "N", "O",
    "P", "Q", "R", "S", "T", "U", "V", "W", "X", "Y", "Z", "[", "backslash", "]", "^", "_",
    "backtick", "a", "b", "c", "d", "e", "f", "g", "h", "i", "j", "k", "l", "m", "n", "o",
    "p", "q", "r", "s", "t", "u", "v", "w", "x", "y", "z", "{", "|", "}", "~">>

\* the code TextEncoder gives a character
CharCode(c) == 31 + (CHOOSE i \in 1..95 : Ascii[i] = c)

\* new TextEncoder().encode(message)
TextEncode(message) == [i \in 1..Len(message) |-> CharCode(message[i])]

\* String.prototype.toUpperCase
toUpperCase(s) ==
  [i \in 1..Len(s) |->
     IF CharCode(s[i]) >= 97 /\ CharCode(s[i]) <= 122 THEN Ascii[CharCode(s[i]) - 63]
     ELSE s[i]]

\* the base64 alphabet
Base64Chars ==
  <<"A", "B", "C", "D", "E", "F", "G", "H", "I", "J", "K", "L", "M", "N", "O", "P",
    "Q", "R", "S", "T", "U", "V", "W", "X", "Y", "Z", "a", "b", "c", "d", "e", "f",
    "g", "h", "i", "j", "k", "l", "m", "n", "o", "p", "q", "r", "s", "t", "u", "v",
    "w", "x", "y", "z", "0", "1", "2", "3", "4", "5", "6", "7", "8", "9", "+", "/">>

\* s with every character from replaced by to
ReplaceAll(s, from, to) == [i \in 1..Len(s) |-> IF s[i] = from THEN to ELSE s[i]]

\* atob: the bytes the base64 string spells; up to two "=" at the end of a
\* string of a length that is a multiple of 4 are padding, and a string of
\* 4k + 1 characters or with a character outside the alphabet is an error
atob(s) ==
  LET pad == IF Len(s) % 4 # 0 THEN 0
             ELSE IF Len(s) >= 2 /\ s[Len(s)] = "=" /\ s[Len(s) - 1] = "=" THEN 2
             ELSE IF Len(s) >= 1 /\ s[Len(s)] = "=" THEN 1
             ELSE 0
      n == Len(s) - pad
      Sextet(k) == IF k > n THEN 0 ELSE (CHOOSE i \in 1..64 : Base64Chars[i] = s[k]) - 1
  IN  IF n % 4 = 1 \/ \E k \in 1..n : \A i \in 1..64 : Base64Chars[i] # s[k]
      THEN Throw([name |-> "InvalidCharacterError", message |-> "not correctly encoded",
                  code |-> None, status |-> 0], 0)
      ELSE Return([bytes |->
                     [j \in 1..((6 * n) \div 8) |->
                        LET g == 4 * ((j - 1) \div 3)
                        IN  CASE (j - 1) % 3 = 0 -> Sextet(g + 1) * 4 + Sextet(g + 2) \div 16
                              [] (j - 1) % 3 = 1 ->
                                   (Sextet(g + 2) % 16) * 16 + Sextet(g + 3) \div 4
                              [] (j - 1) % 3 = 2 -> (Sextet(g + 3) % 4) * 64 + Sextet(g + 4)]],
                  0)

\* s with "=" appended until its length is a multiple of 4
PadToFour(s) == s \o [i \in 1..((4 - (Len(s) % 4)) % 4) |-> "="]

base64ToBytes(base64) == atob(PadToFour(ReplaceAll(ReplaceAll(base64, "-", "+"), "_", "/")))

\* btoa: the base64 string of the bytes, padded with "="
btoa(bytes) ==
  LET n == Len(bytes)
      Byte(k) == IF k > n THEN 0 ELSE bytes[k]
  IN  [k \in 1..(4 * ((n + 2) \div 3)) |->
         LET g == 3 * ((k - 1) \div 4)
         IN  CASE (k - 1) % 4 = 0 -> Base64Chars[Byte(g + 1) \div 4 + 1]
               [] (k - 1) % 4 = 1 ->
                    Base64Chars[(Byte(g + 1) % 4) * 16 + Byte(g + 2) \div 16 + 1]
               [] (k - 1) % 4 = 2 ->
                    IF g + 2 > n THEN "="
                    ELSE Base64Chars[(Byte(g + 2) % 16) * 4 + Byte(g + 3) \div 64 + 1]
               [] (k - 1) % 4 = 3 ->
                    IF g + 3 > n THEN "=" ELSE Base64Chars[(Byte(g + 3) % 64) + 1]]

\* bytesToBase64UrlSafe without the two replacements: plain base64
bytesToBase64(bytes) == btoa(bytes)

bytesToBase64UrlSafe(bytes) == ReplaceAll(ReplaceAll(btoa(bytes), "+", "-"), "/", "_")

\* crypto.subtle.sign("HMAC", key, message) with SHA-256 is the platform's and
\* is not computed here.  It is represented by 32 bytes that are a function of
\* the key and the message and differ for different messages of fewer than 32
\* bytes under one key: collisions of the hash are not modelled.
HmacSha256(key, message) ==
  [i \in 1..32 |->
     IF i = 32 THEN (Len(message) + Len(key)) % 256
     ELSE ((IF i <= Len(message) THEN message[i] ELSE 0)
             + i * (IF key = <<>> THEN 0 ELSE key[((i - 1) % Len(key)) + 1])) % 256]

signHmac(message, secret) ==
  LET Sign(secretBytes) ==
        IF ~secretBytes.ok THEN secretBytes
        ELSE Return([signature |->
                       bytesToBase64UrlSafe(HmacSha256(secretBytes.value.bytes,
                                                       TextEncode(message)))], 0)
  IN  Sign(base64ToBytes(secret))

\* buildL2Message with a separator between the parts
buildL2MessageSeparated(timestamp, method, requestPath, body) ==
  NumberToString(timestamp) \o <<"|">> \o toUpperCase(method) \o <<"|">> \o requestPath
    \o <<"|">> \o (IF body = <<>> THEN <<>> ELSE body[1])

\* buildL2Message without the body
buildL2MessageWithoutBody(timestamp, method, requestPath, body) ==
  NumberToString(timestamp) \o toUpperCase(method) \o requestPath

\* body is <<>> when it is left out and <<s>> for the string s
buildL2Message(timestamp, method, requestPath, body) ==
  NumberToString(timestamp) \o toUpperCase(method) \o requestPath
    \o (IF body = <<>> THEN <<>> ELSE body[1])

\* what createL2Headers returns once signHmac has settled with signature
L2Headers(address, creds, ts, signature) ==
  IF ~signature.ok THEN signature
  ELSE Return([POLY_ADDRESS    |-> address,
               POLY_SIGNATURE  |-> signature.value.signature,
               POLY_TIMESTAMP  |-> NumberToString(ts),
               POLY_API_KEY    |-> creds.key,
               POLY_PASSPHRASE |-> creds.passphrase], 0)

\* timestamp is <<>> when it is left out and <<t>> for the Number t; clock is
\* Date.now()
createL2Headers(address, creds, method, requestPath, body, timestamp, clock) ==
  LET Signed(ts) ==
        L2Headers(address, creds, ts,
                  signHmac(buildL2Message(ts, method, requestPath, body), creds.secret))
  IN  Signed(IF timestamp # <<>> /\ ~IsZero(timestamp[1]) THEN timestamp[1]
             ELSE MathFloor(FDiv(FromInt(clock), FromInt(1000))))

(***************************************************************************)
(* State.  The calculator's caller holds a size, a price and a tick size   *)
(* and applies one function of the calculator to them; what the function   *)
(* returned is kept in calc.  calls holds, for each caller, the call it    *)
(* has made and how far the call has got; now is the clock (Date.now()),   *)
(* loadedAt the time the constants module was loaded.                      *)
(***************************************************************************)
VARIABLES size, price, tickSize, calc, now, loadedAt, calls, reqs, cache, inflight,
          obtained

calcVars == <<size, price, tickSize, calc>>

callVars == <<now, loadedAt, calls>>

cacheVars == <<reqs, cache, inflight, obtained>>

vars == <<size, price, tickSize, calc, now, loadedAt, calls, reqs, cache, inflight, obtained>>

MaxSizeTenths == 10

MaxPriceSteps == 20

NumCallers == 2

Callers == 1..NumCallers

\* the clock advances in steps of half the expiry window, MaxTicks times
MaxTicks == 2

\* the expiry window of cached credentials, in milliseconds
TTL == 60000

ClockStep == TTL \div 2

\* the capacity of the credential cache: the specification leaves it open;
\* small here, so that a further wallet evicts
CacheCapacity == 1

\* the Number the decimal literal n / 10^k denotes
Dec(n, k) == RatToDouble(BFromInt(n), Pow10(k))

\* Sizes: 0, 0.1, ..., the Number just below each of them (what a subtraction
\* such as 0.3 - 0.1 leaves), and 100.
Sizes ==
  { Dec(n, 1) : n \in 0..MaxSizeTenths }
    \cup { Pred(Dec(n, 1)) : n \in 1..MaxSizeTenths }
    \cup { FromInt(100) }

\* Prices: 0, 0.05, 0.10, ...
Prices == { Dec(5 * n, 2) : n \in 0..MaxPriceSteps }

\* what Math.random() may give
Randoms == { Dec(5, 1), Dec(25, 2) }

\* what crypto.getRandomValues may fill the 32 bytes with
RandomBytes == { [i \in 1..32 |-> 255], [i \in 1..32 |-> IF i = 32 THEN 1 ELSE 0] }

NoAmounts == [rawMakerAmt |-> <<>>, rawTakerAmt |-> <<>>]

Idle == [op |-> "none", num |-> Zero, amt |-> NoAmounts]

NoSigner == [type |-> None, address |-> None, account |-> None]

\* a caller that has made no call.  requests are the HTTP requests the call
\* has sent, signed the signTypedData requests it has made, attempts the
\* calls of createApiKey and deriveApiKey it has made and how each settled;
\* params is what buildSignedOrder was called with, at the time of that call
\* and bytes what crypto.getRandomValues gave its calls of generateSalt.
IdleCall ==
  [op |-> None, signer |-> NoSigner, pc |-> "idle", value |-> NoValue, error |-> NoError,
   signed |-> 0, requests |-> <<>>, attempts |-> <<>>, params |-> None, at |-> 0,
   bytes |-> <<>>]

\* a caller that has asked for no credentials.  leader is the caller whose
\* exchange answers the request; hit, age, held and cached are history: the
\* request was answered from the cache, and, as the request was made, the
\* time since credentials were last obtained for the address (-1: never),
\* whether the cache had an entry for it, and those credentials.
IdleReq ==
  [pc |-> "idle", address |-> None, leader |-> 0, value |-> NoValue, error |-> NoError,
   hit |-> FALSE, age |-> -1, held |-> FALSE, cached |-> NoValue]

\* the wallets whose credentials the cache is asked for
Wallets == { "0xA1", "0xA2" }

InitCalls ==
  /\ now = 0
  /\ loadedAt = 0
  /\ calls = [c \in Callers |-> IdleCall]

InitCache ==
  /\ reqs = [c \in Callers |-> IdleReq]
  /\ cache = <<>>
  /\ inflight = [a \in Wallets |-> 0]
  /\ obtained = [a \in Wallets |-> [at |-> -1, credentials |-> NoValue]]

InitCalc ==
  /\ size \in Sizes
  /\ price \in Prices
  /\ tickSize \in TickSize
  /\ calc = Idle
  /\ InitCalls
  /\ InitCache

RoundDown ==
  /\ calc.op = "none"
  /\ calc' = [op |-> "roundDown", num |-> roundDown(size, ROUNDING_CONFIG(tickSize)),
              amt |-> NoAmounts]
  /\ UNCHANGED <<size, price, tickSize, callVars, cacheVars>>

AlignPrice ==
  /\ calc.op = "none"
  /\ calc' = [op |-> "alignPrice", num |-> alignPrice(price, tickSize), amt |-> NoAmounts]
  /\ UNCHANGED <<size, price, tickSize, callVars, cacheVars>>

CalculateBuyAmounts ==
  /\ calc.op = "none"
  /\ calc' = [op |-> "buy", num |-> Zero, amt |-> calculateBuyAmounts(size, price, tickSize)]
  /\ UNCHANGED <<size, price, tickSize, callVars, cacheVars>>

CalculateSellAmounts ==
  /\ calc.op = "none"
  /\ calc' = [op |-> "sell", num |-> Zero, amt |-> calculateSellAmounts(size, price, tickSize)]
  /\ UNCHANGED <<size, price, tickSize, callVars, cacheVars>>

CalculateMarketBuyAmounts ==
  /\ calc.op = "none"
  /\ calc' = [op |-> "marketBuy", num |-> Zero,
              amt |-> calculateMarketBuyAmounts(size, price, tickSize)]
  /\ UNCHANGED <<size, price, tickSize, callVars, cacheVars>>

NextCalc ==
  \/ RoundDown
  \/ AlignPrice
  \/ CalculateBuyAmounts
  \/ CalculateSellAmounts
  \/ CalculateMarketBuyAmounts

SpecCalc == InitCalc /\ [][NextCalc]_vars

(***************************************************************************)
(* One caller of the library.  It makes one call: createL1Headers and      *)
(* buildSignedOrder run to their end without waiting for anything but the  *)
(* signer; createOrDeriveApiKey waits for the network twice, and the clock *)
(* may advance while it does.                                              *)
(***************************************************************************)
Done(call) == call.pc \in {"returned", "threw"}

Tick ==
  /\ now < MaxTicks * ClockStep
  /\ now' = now + ClockStep
  /\ UNCHANGED <<loadedAt, calls, calcVars, cacheVars>>

Settled(op, signer, r) ==
  [op |-> op, signer |-> signer, pc |-> IF r.ok THEN "returned" ELSE "threw",
   value |-> r.value, error |-> r.error, signed |-> r.signed, requests |-> <<>>,
   attempts |-> <<>>, params |-> None, at |-> 0, bytes |-> <<>>]

CallCreateL1Headers(c) ==
  /\ calls[c].pc = "idle"
  /\ \E signer \in Signers, nonce \in {<<>>, <<Zero>>, <<FromInt(7)>>},
        timestamp \in {<<>>, <<Zero>>, <<FromInt(1234)>>}, random \in Randoms,
        walletSigns \in BOOLEAN :
       calls' = [calls EXCEPT ![c] =
                   [Settled("createL1Headers", signer,
                            createL1Headers(signer, nonce, timestamp, now, random, walletSigns))
                      EXCEPT !.params = [nonce |-> nonce, timestamp |-> timestamp,
                                         random |-> random],
                             !.at = now]]
  /\ UNCHANGED <<now, loadedAt, calcVars, cacheVars>>

\* The credentials requests are signed with: the secrets are the bytes 77,
\* 97, 110 in base64, the bytes 251, 255 in URL-safe base64 without padding,
\* and a string that is no base64.
L2Credentials ==
  { [key |-> "key-1", secret |-> <<"T", "W", "F", "u">>, passphrase |-> "pass-1"],
    [key |-> "key-2", secret |-> <<"-", "_", "8">>, passphrase |-> "pass-2"],
    [key |-> "key-3", secret |-> <<"T">>, passphrase |-> "pass-3"] }

\* The requests that are signed: the body is left out, empty, or a string.
L2Requests ==
  { [method |-> method, requestPath |-> requestPath, body |-> body] :
    method \in { <<"G", "E", "T">>, <<"g", "e", "t">> },
    requestPath \in { <<"/", "o", "r", "d", "e", "r">>, <<"/", "o", "r", "d", "e", "r", "s">> },
    body \in { <<>>, << <<>> >>, << <<"s">> >> } }

\* The timestamps a caller may give createL2Headers: none, 0, or a time in
\* seconds.
L2Timestamps == { <<>>, <<Zero>>, <<FromInt(1700000000)>> }

CallCreateL2Headers(c) ==
  /\ calls[c].pc = "idle"
  /\ \E creds \in L2Credentials, request \in L2Requests, timestamp \in L2Timestamps :
       calls' = [calls EXCEPT ![c] =
                   [Settled("createL2Headers", NoSigner,
                            createL2Headers("0xA1", creds, request.method,
                                            request.requestPath, request.body, timestamp, now))
                      EXCEPT !.params = [address |-> "0xA1", creds |-> creds,
                                         method |-> request.method,
                                         requestPath |-> request.requestPath,
                                         body |-> request.body, timestamp |-> timestamp],
                             !.at = now]]
  /\ UNCHANGED <<now, loadedAt, calcVars, cacheVars>>

\* The optional parameters a caller may give buildSignedOrder: none; all of
\* them, two of them 0; a fee rate and an expiration that are no integers;
\* and an expiration and a nonce of 0.
OptionalParams ==
  { [feeRateBps |-> <<>>, expiration |-> <<>>, taker |-> None, signatureType |-> <<>>,
     nonce |-> <<>>],
    [feeRateBps |-> <<Zero>>, expiration |-> <<FromInt(1700000000)>>, taker |-> "0xC3",
     signatureType |-> <<Zero>>, nonce |-> <<"7">>],
    [feeRateBps |-> <<Dec(5, 1)>>, expiration |-> <<>>, taker |-> None, signatureType |-> <<>>,
     nonce |-> <<>>],
    [feeRateBps |-> <<>>, expiration |-> <<Dec(17000005, 1)>>, taker |-> None,
     signatureType |-> <<>>, nonce |-> <<>>],
    [feeRateBps |-> <<FromInt(100)>>, expiration |-> <<Zero>>, taker |-> None,
     signatureType |-> <<>>, nonce |-> <<"0">>] }

\* the token, the price and the tick size of the orders: 0.65 on either tick,
\* 0.35, which is off the tick 0.1, 1.5, which is no probability, and a
\* token id written in hexadecimal
Markets ==
  { [tokenId |-> <<"4", "2">>, price |-> Dec(65, 2), tickSize |-> "0.01"],
    [tokenId |-> <<"4", "2">>, price |-> Dec(65, 2), tickSize |-> "0.1"],
    [tokenId |-> <<"4", "2">>, price |-> Dec(35, 2), tickSize |-> "0.1"],
    [tokenId |-> <<"4", "2">>, price |-> Dec(15, 1), tickSize |-> "0.01"],
    [tokenId |-> <<"0", "x", "2", "a">>, price |-> Dec(65, 2), tickSize |-> "0.01"] }

BuildOrderParams ==
  { [signer |-> signer, tokenId |-> market.tokenId, price |-> market.price,
     size |-> FromInt(100), side |-> side, tickSize |-> market.tickSize,
     feeRateBps |-> opt.feeRateBps, nonce |-> opt.nonce, expiration |-> opt.expiration,
     taker |-> opt.taker, signatureType |-> opt.signatureType, funderAddress |-> funder,
     negRisk |-> negRisk] :
    signer \in Signers, market \in Markets, side \in {"BUY", "SELL"},
    opt \in OptionalParams, funder \in {None, "0xF4"}, negRisk \in {<<>>, <<TRUE>>} }

\* The parameters caller c gives buildSignedOrder: any of BuildOrderParams for
\* the first order that is asked for, and for an order asked for after it the
\* same parameters again, on either exchange.
OrderParams(c) ==
  IF \E d \in Callers \ {c} : calls[d].op = "buildSignedOrder"
  THEN { [calls[d].params EXCEPT !.negRisk = negRisk] :
           d \in { e \in Callers \ {c} : calls[e].op = "buildSignedOrder" },
           negRisk \in {<<>>, <<TRUE>>} }
  ELSE BuildOrderParams

\* what crypto.getRandomValues may give the generateSalt that makes the
\* nonce: it is called only when no nonce was given
NonceBytes(params) == IF params.nonce # <<>> THEN {<<>>} ELSE RandomBytes

\* what the wallet may answer a request to sign: only a wallet client with an
\* account asks its wallet
WalletAnswers(signer) ==
  IF signer.type = "WalletClient" /\ signer.account # None THEN BOOLEAN ELSE {TRUE}

\* the call of buildSignedOrder that settled with r
SettledOrder(params, saltBytes, nonceBytes, r) ==
  [Settled("buildSignedOrder", params.signer, r)
     EXCEPT !.params = params, !.at = now, !.bytes = <<saltBytes, nonceBytes>>]

CallBuildSignedOrder(c) ==
  /\ calls[c].pc = "idle"
  /\ \E params \in OrderParams(c), saltBytes \in RandomBytes :
     \E nonceBytes \in NonceBytes(params), walletSigns \in WalletAnswers(params.signer) :
       calls' = [calls EXCEPT ![c] =
                   SettledOrder(params, saltBytes, nonceBytes,
                                buildSignedOrder(params, saltBytes, nonceBytes, walletSigns,
                                                 loadedAt))]
  /\ UNCHANGED <<now, loadedAt, calcVars, cacheVars>>

\* createOrDeriveApiKey is entered: createApiKey is about to be called
Entered(signer) ==
  [IdleCall EXCEPT !.op = "createOrDeriveApiKey", !.signer = signer, !.pc = "createApiKey"]

CallCreateOrDeriveApiKey(c) ==
  /\ calls[c].pc = "idle"
  /\ \E signer \in Signers : calls' = [calls EXCEPT ![c] = Entered(signer)]
  /\ UNCHANGED <<now, loadedAt, calcVars, cacheVars>>

\* a call of fn that settled with r; response is what fetch settled with,
\* None when fn threw before its request
Attempt(fn, r, response) ==
  [fn |-> fn, ok |-> r.ok, value |-> r.value, error |-> r.error, response |-> response]

\* the call once the function fn has settled with r and createOrDeriveApiKey
\* has gone on to k
Continue(call, fn, r, response, k) ==
  [call EXCEPT !.pc = k.pc, !.value = k.value, !.error = k.error,
               !.signed = call.signed + r.signed,
               !.attempts = Append(call.attempts, Attempt(fn, r, response))]

\* the call once the function fn has sent its request
Await(call, pc, request) ==
  [call EXCEPT !.pc = pc, !.signed = call.signed + request.signed,
               !.requests = Append(call.requests, request.value)]

\* createApiKey runs up to its request, or throws before it
CreateApiKeyRequest(c, randoms) ==
  /\ calls[c].pc = "createApiKey"
  /\ \E random \in randoms, walletSigns \in BOOLEAN :
       LET request == createApiKey(calls[c].signer, now, random, walletSigns)
       IN  calls' = [calls EXCEPT ![c] =
                       IF request.ok THEN Await(calls[c], "awaitCreate", request)
                       ELSE Continue(calls[c], "createApiKey", request, None,
                                     TryCreateApiKey(request))]
  /\ UNCHANGED <<now, loadedAt, calcVars, cacheVars>>

\* fetch settles and createApiKey returns or throws
CreateApiKeyResponse(c, responses) ==
  /\ calls[c].pc = "awaitCreate"
  /\ \E response \in responses :
       LET r == ApiKeyResult(response)
       IN  calls' = [calls EXCEPT ![c] =
                       Continue(calls[c], "createApiKey", r, response.kind,
                                TryCreateApiKey(r))]
  /\ UNCHANGED <<now, loadedAt, calcVars, cacheVars>>

\* deriveApiKey sending the headers createApiKey built when it has sent some
DeriveApiKeyRequestReusing(c, randoms) ==
  /\ calls[c].pc = "deriveApiKey"
  /\ \E random \in randoms, walletSigns \in BOOLEAN :
       LET request == deriveApiKey(calls[c].signer, now, random, walletSigns)
           reused  == IF calls[c].requests = <<>> \/ ~request.ok THEN request
                      ELSE [request EXCEPT !.value.headers = calls[c].requests[1].headers]
       IN  calls' = [calls EXCEPT ![c] =
                       IF reused.ok THEN Await(calls[c], "awaitDerive", reused)
                       ELSE Continue(calls[c], "deriveApiKey", reused, None,
                                     CatchDeriveApiKey(reused))]
  /\ UNCHANGED <<now, loadedAt, calcVars, cacheVars>>

\* deriveApiKey runs up to its request, or throws before it
DeriveApiKeyRequest(c, randoms) ==
  /\ calls[c].pc = "deriveApiKey"
  /\ \E random \in randoms, walletSigns \in BOOLEAN :
       LET request == deriveApiKey(calls[c].signer, now, random, walletSigns)
       IN  calls' = [calls EXCEPT ![c] =
                       IF request.ok THEN Await(calls[c], "awaitDerive", request)
                       ELSE Continue(calls[c], "deriveApiKey", request, None,
                                     CatchDeriveApiKey(request))]
  /\ UNCHANGED <<now, loadedAt, calcVars, cacheVars>>

\* fetch settles and deriveApiKey returns or throws
DeriveApiKeyResponse(c, responses) ==
  /\ calls[c].pc = "awaitDerive"
  /\ \E response \in responses :
       LET r == ApiKeyResult(response)
       IN  calls' = [calls EXCEPT ![c] =
                       Continue(calls[c], "deriveApiKey", r, response.kind,
                                CatchDeriveApiKey(r))]
  /\ UNCHANGED <<now, loadedAt, calcVars, cacheVars>>

Init ==
  /\ size = Zero
  /\ price = Zero
  /\ tickSize = "0.01"
  /\ calc = Idle
  /\ InitCalls
  /\ InitCache

Next ==
  \/ Tick
  \/ CallCreateL1Headers(1)
  \/ CallBuildSignedOrder(1)
  \/ CallCreateL2Headers(1)
  \/ CallCreateOrDeriveApiKey(1)
  \/ CreateApiKeyRequest(1, Randoms)
  \/ CreateApiKeyResponse(1, Responses)
  \/ DeriveApiKeyRequest(1, Randoms)
  \/ DeriveApiKeyResponse(1, Responses)

Spec == Init /\ [][Next]_vars

\* Two orders: caller 1 asks for an order, and then caller 2 for another.
NextOrders ==
  \/ CallBuildSignedOrder(1)
  \/ Done(calls[1]) /\ CallBuildSignedOrder(2)

SpecOrders == Init /\ [][NextOrders]_vars

\* Two signed requests: caller 1 asks for the L2 headers of a request, and
\* then caller 2 for those of another, at any time.
NextRequests ==
  \/ Tick
  \/ CallCreateL2Headers(1)
  \/ Done(calls[1]) /\ CallCreateL2Headers(2)

SpecRequests == Init /\ [][NextRequests]_vars

(***************************************************************************)
(* The credential cache.  The callers of the library ask for the           *)
(* credentials of a wallet through a cache in front of                     *)
(* createOrDeriveApiKey: entries are kept by wallet address in order of    *)
(* use, least recently used first, each with the time it was stored; one   *)
(* exchange per address is in flight at a time and its outcome goes to     *)
(* every caller that waits for it.  obtained is history: the credentials   *)
(* last obtained for each address, and when.                               *)
(***************************************************************************)
CacheSigners == { PrivateKeyAccount(a) : a \in Wallets }

\* the service and the generator as the exchanges behind the cache see them
CacheRandoms == { Dec(5, 1) }

CacheResponses ==
  { r \in Responses : r.kind = "unreachable" \/ (r.status = 200 /\ "apiKey" \in DOMAIN r.body) }

Holds(entries, address) == \E i \in 1..Len(entries) : entries[i].address = address

Lookup(entries, address) == CHOOSE i \in 1..Len(entries) : entries[i].address = address

Without(entries, address) == SelectSeq(entries, LAMBDA e : e.address # address)

\* the expiry window taken for 60 milliseconds
FreshForSixtyMilliseconds(entry, clock) == clock - entry.storedAt < TTL \div 1000

\* an entry still within its expiry window
Fresh(entry, clock) == clock - entry.storedAt < TTL

\* the entries once the entry of address has been used
Touch(entries, address) ==
  Append(Without(entries, address), entries[Lookup(entries, address)])

\* the entries once credentials have been stored: beyond the capacity the
\* least recently used entries go
Store(entries, address, credentials, clock) ==
  LET others == Without(entries, address)
      kept   == IF Len(others) >= CacheCapacity
                THEN SubSeq(others, Len(others) - CacheCapacity + 2, Len(others))
                ELSE others
  IN  Append(kept, [address |-> address, credentials |-> credentials, storedAt |-> clock])

\* a request that never waits for the exchange in flight
DecideWithoutJoining(entries, flights, address, clock) ==
  IF Holds(entries, address) /\ Fresh(entries[Lookup(entries, address)], clock) THEN "hit"
  ELSE "lead"

\* what a request for the credentials of address does: "hit" answers from
\* the cache, "join" waits for the exchange in flight, "lead" starts one
Decide(entries, flights, address, clock) ==
  IF Holds(entries, address) /\ Fresh(entries[Lookup(entries, address)], clock) THEN "hit"
  ELSE IF flights[address] # 0 THEN "join"
  ELSE "lead"

Ready(c) == reqs[c].pc \in {"idle", "returned", "threw"} /\ calls[c].pc = "idle"

Pending(c, address) == reqs[c].pc \in {"leading", "waiting"} /\ reqs[c].address = address

\* caller c asks for the credentials of a wallet
GetCredentials(c) ==
  /\ Ready(c)
  /\ \E signer \in CacheSigners :
       LET address == getSignerAddress(signer).value.address
           what    == Decide(cache, inflight, address, now)
           asked   == [IdleReq EXCEPT !.address = address,
                         !.age = IF obtained[address].at < 0 THEN -1
                                 ELSE now - obtained[address].at,
                         !.held = Holds(cache, address),
                         !.cached = obtained[address].credentials]
       IN  /\ reqs' = [reqs EXCEPT ![c] =
                         CASE what = "hit" ->
                                [asked EXCEPT !.pc = "returned", !.hit = TRUE,
                                   !.value = cache[Lookup(cache, address)].credentials]
                           [] what = "join" ->
                                [asked EXCEPT !.pc = "waiting", !.leader = inflight[address]]
                           [] OTHER -> [asked EXCEPT !.pc = "leading", !.leader = c]]
           /\ cache' = IF what = "hit" THEN Touch(cache, address) ELSE cache
           /\ inflight' = IF what = "lead" THEN [inflight EXCEPT ![address] = c] ELSE inflight
           /\ calls' = IF what = "lead" THEN [calls EXCEPT ![c] = Entered(signer)] ELSE calls
  /\ UNCHANGED <<now, loadedAt, obtained, calcVars>>

\* the exchange caller c leads has settled: its outcome is stored and handed
\* to c and to every caller that waits for it
FlightSettles(c) ==
  /\ reqs[c].pc = "leading"
  /\ Done(calls[c])
  /\ LET address == reqs[c].address
         flight  == calls[c]
     IN  /\ reqs' = [d \in Callers |->
                       IF d = c \/ (reqs[d].pc = "waiting" /\ reqs[d].leader = c)
                       THEN [reqs[d] EXCEPT !.pc = flight.pc, !.value = flight.value,
                                            !.error = flight.error]
                       ELSE reqs[d]]
         /\ cache' = IF flight.pc = "returned"
                     THEN Store(cache, address, flight.value, now) ELSE cache
         /\ inflight' = [inflight EXCEPT ![address] = IF @ = c THEN 0 ELSE @]
         /\ obtained' = IF flight.pc = "returned"
                        THEN [obtained EXCEPT ![address] =
                                [at |-> now, credentials |-> flight.value]]
                        ELSE obtained
  /\ calls' = [calls EXCEPT ![c] = IdleCall]
  /\ UNCHANGED <<now, loadedAt, calcVars>>

\* Several callers of the cache, within one tick of the clock.
NextFlights ==
  \E c \in Callers :
    \/ GetCredentials(c)
    \/ CreateApiKeyRequest(c, CacheRandoms)
    \/ CreateApiKeyResponse(c, CacheResponses)
    \/ DeriveApiKeyRequest(c, CacheRandoms)
    \/ DeriveApiKeyResponse(c, CacheResponses)
    \/ FlightSettles(c)

SpecFlights == Init /\ [][NextFlights]_vars

\* One caller of the cache, over time.
NextCache ==
  \/ Tick
  \/ GetCredentials(1)
  \/ CreateApiKeyRequest(1, CacheRandoms)
  \/ CreateApiKeyResponse(1, CacheResponses)
  \/ DeriveApiKeyRequest(1, CacheRandoms)
  \/ DeriveApiKeyResponse(1, CacheResponses)
  \/ FlightSettles(1)

SpecCache == Init /\ [][NextCache]_vars

(***************************************************************************)
(* Properties of the calculator.                                           *)
(***************************************************************************)

\* units <= a * b * 10^6, the product taken exactly (no rounding) from the
\* Numbers a and b
WithinExactProduct(units, a, b) ==
  IF IsZero(a) \/ IsZero(b) THEN units = <<>>
  ELSE LET prod == BMul(BMul(a.m, b.m), Pow10(COLLATERAL_TOKEN_DECIMALS))
           e    == a.e + b.e
       IN  IF e <= 0 THEN BCmp(BShl(units, 0 - e), prod) <= 0
           ELSE BCmp(units, BShl(prod, e)) <= 0

\* C7: for every value x >= 0 and every decimal count d in {1,2,3,4},
\* roundDown(x, d) <= x (roundDown never rounds up).
C7_RoundDownNeverRoundsUp ==
  calc.op = "roundDown" => FLe(calc.num, size)

\* C8: for every limit order the USDC leg in base units (makerAmount of a BUY,
\* takerAmount of a SELL) is never greater than size * price * 10^6 computed
\* exactly from the caller's size and price.
C8_UsdcLegWithinExactProduct ==
  /\ calc.op = "buy"  => WithinExactProduct(Units(calc.amt.rawMakerAmt), size, price)
  /\ calc.op = "sell" => WithinExactProduct(Units(calc.amt.rawTakerAmt), size, price)

\* C9: calculateBuyAmounts(size, price, tickSize) returns
\* makerAmount = trunc(roundDown(size * alignPrice(price, tickSize), tickDecimals) * 10^6)
\* and takerAmount = trunc(size * 10^6), both as decimal-integer strings; size 100
\* at price 0.65 gives "65000000" and "100000000" on tick 0.01, and "60000000"
\* and "100000000" on tick 0.1.
C9_BuyAmounts ==
  calc.op = "buy" =>
    LET tickDecimals == ROUNDING_CONFIG(tickSize)
        million      == MathPow10(6)
        usdc         == roundDown(FMul(size, alignPrice(price, tickSize)), tickDecimals)
    IN  /\ calc.amt.rawMakerAmt = NumberToString(MathFloor(FMul(usdc, million)))
        /\ calc.amt.rawTakerAmt = NumberToString(MathFloor(FMul(size, million)))
        /\ IsDecimalInteger(calc.amt.rawMakerAmt)
        /\ IsDecimalInteger(calc.amt.rawTakerAmt)
        /\ (size = FromInt(100) /\ price = Dec(65, 2) /\ tickSize = "0.01")
             => calc.amt = [rawMakerAmt |-> <<"6", "5", "0", "0", "0", "0", "0", "0">>,
                            rawTakerAmt |-> <<"1", "0", "0", "0", "0", "0", "0", "0", "0">>]
        /\ (size = FromInt(100) /\ price = Dec(65, 2) /\ tickSize = "0.1")
             => calc.amt = [rawMakerAmt |-> <<"6", "0", "0", "0", "0", "0", "0", "0">>,
                            rawTakerAmt |-> <<"1", "0", "0", "0", "0", "0", "0", "0", "0">>]

\* a BUY of 100 at 0.65 on tick 0.1 has been computed: the price was aligned
\* down to 0.6 and 60 USDC are offered
C9_Witness ==
  /\ calc.op = "buy"
  /\ size = FromInt(100) /\ price = Dec(65, 2) /\ tickSize = "0.1"
  /\ calc.amt.rawMakerAmt = <<"6", "0", "0", "0", "0", "0", "0", "0">>

\* C10: SELL amounts are the mirror of BUY amounts: for every (size, price,
\* tickSize), calculateSellAmounts returns rawMakerAmt equal to
\* calculateBuyAmounts' rawTakerAmt and rawTakerAmt equal to
\* calculateBuyAmounts' rawMakerAmt.
C10_SellMirrorsBuy ==
  calc.op = "sell" =>
    LET buy == calculateBuyAmounts(size, price, tickSize)
    IN  /\ calc.amt.rawMakerAmt = buy.rawTakerAmt
        /\ calc.amt.rawTakerAmt = buy.rawMakerAmt

\* a SELL whose two legs differ and whose price was not on the tick grid
C10_Witness ==
  /\ calc.op = "sell"
  /\ price = Dec(65, 2) /\ tickSize = "0.1" /\ size = Dec(3, 1)
  /\ calc.amt.rawMakerAmt # calc.amt.rawTakerAmt
  /\ calc.amt.rawTakerAmt # <<"0">>

\* C11: calculateMarketBuyAmounts(budget, price, tickSize) returns
\* makerAmount = trunc(budget * 10^6) and, when price > 0,
\* takerAmount = trunc(roundDown(budget / price, tickDecimals) * 10^6); when
\* price is zero it returns takerAmount "0" with the same makerAmount.  A
\* budget of 100 at price 0.5 on tick 0.01 gives "100000000" and "200000000".
C11_MarketBuyAmounts ==
  calc.op = "marketBuy" =>
    LET million == MathPow10(6)
        tokens  == roundDown(FDiv(size, price), ROUNDING_CONFIG(tickSize))
    IN  /\ calc.amt.rawMakerAmt = NumberToString(MathFloor(FMul(size, million)))
        /\ ~IsZero(price)
             => calc.amt.rawTakerAmt = NumberToString(MathFloor(FMul(tokens, million)))
        /\ IsZero(price) => calc.amt.rawTakerAmt = <<"0">>
        /\ IsDecimalInteger(calc.amt.rawMakerAmt)
        /\ IsDecimalInteger(calc.amt.rawTakerAmt)
        /\ (size = FromInt(100) /\ price = Dec(50, 2) /\ tickSize = "0.01")
             => calc.amt = [rawMakerAmt |-> <<"1", "0", "0", "0", "0", "0", "0", "0", "0">>,
                            rawTakerAmt |-> <<"2", "0", "0", "0", "0", "0", "0", "0", "0">>]

\* a budget of 100 was spent at price zero: no tokens, the budget unchanged
C11_Witness ==
  /\ calc.op = "marketBuy"
  /\ size = FromInt(100) /\ IsZero(price)
  /\ calc.amt = [rawMakerAmt |-> <<"1", "0", "0", "0", "0", "0", "0", "0", "0">>,
                 rawTakerAmt |-> <<"0">>]

\* C12: alignPrice is idempotent: for every price in [0,1] and every tick
\* size, alignPrice(alignPrice(p, t), t) = alignPrice(p, t).
C12_AlignPriceIdempotent ==
  calc.op = "alignPrice" => alignPrice(calc.num, tickSize) = calc.num

\* the integer a natural below Base^2 is
NatInt(n) == IF n = <<>> THEN 0 ELSE IF Len(n) = 1 THEN n[1] ELSE n[1] + Base * n[2]

\* The greatest multiple of the tick that is <= p, a multiple of the tick
\* being the Number a decimal k / 10^d denotes: k is floor(p * 10^d), taken
\* exactly, or one more when the Number of that decimal is p itself.
GreatestMultiple(p, d) ==
  LET k == NatInt(FloorNat([m |-> BMul(p.m, Pow10(d)), e |-> p.e]))
  IN  IF FLe(Dec(k + 1, d), p) THEN Dec(k + 1, d) ELSE Dec(k, d)

\* C13: alignPrice(p, t) is the greatest multiple of the tick t that is <= p,
\* and a price that is exactly a multiple of the tick aligns to itself.
C13_AlignPriceGreatestMultiple ==
  calc.op = "alignPrice" =>
    /\ calc.num = GreatestMultiple(price, ROUNDING_CONFIG(tickSize))
    /\ (\E k \in 0..10 : price = Dec(k, 1)) /\ tickSize = "0.1" => calc.num = price

\* the leg of the amounts that is computed from the price: the USDC of a
\* limit order, the tokens of a market buy
PriceLeg(c) == IF c.op = "buy" THEN c.amt.rawMakerAmt ELSE c.amt.rawTakerAmt

\* the other leg: the size, or the budget, in base units
SizeLeg(c) == IF c.op = "buy" THEN c.amt.rawTakerAmt ELSE c.amt.rawMakerAmt

\* C14, as amended: for every size >= 0, price >= 0 and tick size the three
\* functions return a result, two decimal-integer strings; when size is zero
\* both amounts are "0", and when price is zero the amount computed from the
\* price is "0" while the other is the size in base units.
C14_NeverRaisesZeroForZero ==
  calc.op \in {"buy", "sell", "marketBuy"} =>
    /\ IsDecimalInteger(calc.amt.rawMakerAmt)
    /\ IsDecimalInteger(calc.amt.rawTakerAmt)
    /\ IsZero(size) => calc.amt = [rawMakerAmt |-> <<"0">>, rawTakerAmt |-> <<"0">>]
    /\ IsZero(price) => /\ PriceLeg(calc) = <<"0">>
                        /\ SizeLeg(calc) = NumberToString(MathFloor(FMul(size, MathPow10(6))))

\* C14 as stated: a result is returned, and when size or price is zero the
\* amounts are zero.
C14_NeverRaisesZeroAmounts ==
  calc.op \in {"buy", "sell", "marketBuy"} =>
    /\ IsDecimalInteger(calc.amt.rawMakerAmt)
    /\ IsDecimalInteger(calc.amt.rawTakerAmt)
    /\ IsZero(size) \/ IsZero(price)
         => calc.amt = [rawMakerAmt |-> <<"0">>, rawTakerAmt |-> <<"0">>]

\* a market buy of budget 0.5 at price zero: no tokens, the budget kept
C14_Witness ==
  /\ calc.op = "marketBuy"
  /\ IsZero(price) /\ size = Dec(5, 1)
  /\ calc.amt = [rawMakerAmt |-> <<"5", "0", "0", "0", "0", "0">>, rawTakerAmt |-> <<"0">>]


(***************************************************************************)
(* Properties of createOrDeriveApiKey, createL1Headers and                 *)
(* buildSignedOrder.                                                       *)
(***************************************************************************)
Exchange(call) == call.op = "createOrDeriveApiKey"

IsCreate(request) == request.method = "POST" /\ request.path = "/auth/api-key"

IsDerive(request) == request.method = "GET" /\ request.path = "/auth/derive-api-key"

CreateRequests(call) == { i \in 1..Len(call.requests) : IsCreate(call.requests[i]) }

DeriveRequests(call) == { i \in 1..Len(call.requests) : IsDerive(call.requests[i]) }

CreateFailed(call) == Len(call.attempts) >= 1 /\ ~call.attempts[1].ok

CreateSucceeded(call) == Len(call.attempts) >= 1 /\ call.attempts[1].ok

\* C1, as amended: createOrDeriveApiKey calls createApiKey first and calls
\* deriveApiKey if and only if createApiKey failed; each sends its request
\* (POST /auth/api-key, GET /auth/derive-api-key) only once its headers
\* have been built, so that the create request, when one is sent, is the
\* first request; when create succeeds its result is returned and derive is
\* never called.
C1_DeriveOnlyAfterCreateFailed ==
  \A c \in Callers :
    LET call == calls[c]
    IN  Exchange(call) =>
          /\ \A i \in 1..Len(call.attempts) :
               call.attempts[i].fn = (IF i = 1 THEN "createApiKey" ELSE "deriveApiKey")
          /\ \A i \in 1..Len(call.requests) :
               /\ IsCreate(call.requests[i]) \/ IsDerive(call.requests[i])
               /\ IsCreate(call.requests[i]) => i = 1
          /\ call.pc \in {"deriveApiKey", "awaitDerive"} => CreateFailed(call)
          /\ DeriveRequests(call) # {} => CreateFailed(call)
          /\ Done(call) => (Len(call.attempts) = 2 <=> CreateFailed(call))
          /\ CreateSucceeded(call) =>
               /\ call.pc = "returned"
               /\ call.value = call.attempts[1].value
               /\ Len(call.attempts) = 1
               /\ DeriveRequests(call) = {}

\* C1 as stated: the create request is sent first, and the derive request is
\* sent if and only if the create attempt failed.
C1_CreateRequestFirstDeriveIffFailed ==
  \A c \in Callers :
    LET call == calls[c]
    IN  Exchange(call) /\ Done(call) =>
          /\ call.requests # <<>> /\ IsCreate(call.requests[1])
          /\ DeriveRequests(call) # {} <=> CreateFailed(call)
          /\ CreateSucceeded(call) =>
               call.pc = "returned" /\ call.value = call.attempts[1].value
                 /\ DeriveRequests(call) = {}

\* create was rejected, derive was asked and gave the credentials
C1_Witness ==
  \E c \in Callers :
    /\ Exchange(calls[c]) /\ calls[c].pc = "returned"
    /\ Len(calls[c].requests) = 2
    /\ IsCreate(calls[c].requests[1]) /\ IsDerive(calls[c].requests[2])
    /\ calls[c].attempts[1].error.status = 400
    /\ calls[c].value = calls[c].attempts[2].value

\* C4: one call of createOrDeriveApiKey sends at most one create request and
\* at most one derive request; when derive fails too the call fails, with
\* the failure of derive.
C4_NoRetryDeriveFailurePropagates ==
  \A c \in Callers :
    LET call == calls[c]
    IN  Exchange(call) =>
          /\ Cardinality(CreateRequests(call)) <= 1
          /\ Cardinality(DeriveRequests(call)) <= 1
          /\ Len(call.attempts) <= 2
          /\ Len(call.attempts) = 2 /\ ~call.attempts[2].ok =>
               call.pc = "threw" /\ call.error = call.attempts[2].error

\* both requests were sent, create failed one way and derive another
C4_Witness ==
  \E c \in Callers :
    /\ Exchange(calls[c]) /\ calls[c].pc = "threw"
    /\ Len(calls[c].requests) = 2
    /\ calls[c].attempts[1].error.status = 400
    /\ calls[c].attempts[2].error.status = 500
    /\ calls[c].error.status = 500

Unreachable(call, i) == Len(call.attempts) >= i /\ call.attempts[i].response = "unreachable"

\* C5, as amended: a transport error raised during the derive request is
\* what the caller of createOrDeriveApiKey receives, unchanged; one raised
\* during the create request is caught like any other failure of create,
\* derive is called, and the caller receives the outcome of derive.
C5_DeriveTransportErrorVerbatim ==
  \A c \in Callers :
    LET call == calls[c]
    IN  Exchange(call) /\ Done(call) =>
          /\ Unreachable(call, 2) => call.pc = "threw" /\ call.error = FetchFailed
          /\ Unreachable(call, 1) =>
               /\ Len(call.attempts) = 2
               /\ call.attempts[2].ok => call.pc = "returned"
                                           /\ call.value = call.attempts[2].value
               /\ ~call.attempts[2].ok => call.pc = "threw"
                                            /\ call.error = call.attempts[2].error

\* C5 as stated: a transport error raised during either request is what the
\* caller receives.
C5_TransportErrorVerbatim ==
  \A c \in Callers :
    LET call == calls[c]
    IN  Exchange(call) /\ Done(call) /\ (Unreachable(call, 1) \/ Unreachable(call, 2)) =>
          call.pc = "threw" /\ call.error = FetchFailed

\* create was rejected by the service, then the network failed under derive
C5_Witness ==
  \E c \in Callers :
    /\ Exchange(calls[c]) /\ calls[c].pc = "threw"
    /\ calls[c].attempts[1].error.code = "HTTP_ERROR"
    /\ Unreachable(calls[c], 2)
    /\ calls[c].error = FetchFailed

NoAddress(signer) == signer.address = None /\ signer.account = None

Exchanges(address) ==
  { c \in Callers : calls[c].pc # "idle" /\ calls[c].signer.address = address }

\* C2: while requests for the credentials of one address are pending, exactly
\* one create/derive exchange for that address is under way, never two; and
\* when it settles every caller with a request pending on the address has the
\* outcome of that exchange.
C2_SingleFlight ==
  /\ [](\A a \in Wallets :
          /\ Cardinality(Exchanges(a)) <= 1
          /\ (\E c \in Callers : Pending(c, a)) => Cardinality(Exchanges(a)) = 1)
  /\ [][\A l \in Callers :
          reqs[l].pc = "leading" /\ Done(calls[l]) /\ calls'[l].pc = "idle" =>
            \A d \in Callers :
              Pending(d, reqs[l].address) =>
                /\ reqs'[d].pc = calls[l].pc
                /\ reqs'[d].value = calls[l].value
                /\ reqs'[d].error = calls[l].error]_vars

\* two callers asked for the same address, one exchange ran, both have its
\* credentials
C2_Witness ==
  \E c, d \in Callers :
    /\ c # d
    /\ reqs[c].pc = "returned" /\ reqs[c].leader = c /\ ~reqs[c].hit
    /\ reqs[d].pc = "returned" /\ reqs[d].leader = c /\ ~reqs[d].hit
    /\ reqs[d].address = reqs[c].address
    /\ reqs[d].value = reqs[c].value
    /\ reqs[c].value = obtained[reqs[c].address].credentials

InWindow(req) == req.age >= 0 /\ req.age < TTL

FromCache(c) ==
  /\ reqs[c].hit
  /\ reqs[c].pc = "returned"
  /\ reqs[c].value = reqs[c].cached
  /\ calls[c].pc = "idle"

\* C3, as amended: a request for the credentials of an address made within
\* the expiry window (60 seconds) of their being obtained, while the cache
\* still has the entry of that address, returns the cached credentials and
\* starts no exchange.
C3_CachedWithinWindowUnlessEvicted ==
  \A c \in Callers :
    reqs[c].pc # "idle" /\ InWindow(reqs[c]) /\ reqs[c].held => FromCache(c)

\* C3 as stated: every request made within the expiry window returns the
\* cached credentials and sends no request.
C3_CachedWithinWindow ==
  \A c \in Callers : reqs[c].pc # "idle" /\ InWindow(reqs[c]) => FromCache(c)

\* credentials obtained one clock step ago are returned from the cache
C3_Witness ==
  \E c \in Callers :
    /\ FromCache(c)
    /\ reqs[c].age = ClockStep
    /\ reqs[c].held
    /\ "key" \in DOMAIN reqs[c].value


(***************************************************************************)
(* Properties of buildSignedOrder.                                         *)
(***************************************************************************)
\* the calls of buildSignedOrder that have been made
OrderCall(c) == calls[c].op = "buildSignedOrder"

\* C15: a price outside [0,1] is rejected with an error before the amount
\* calculator is reached: no call of buildSignedOrder with such a price
\* returns a signed order or asks the signer for a signature.
C15_OutOfRangeRejected ==
  \A c \in Callers :
    OrderCall(c) /\ FCmp(calls[c].params.price, FromInt(1)) > 0
      => calls[c].pc = "threw" /\ calls[c].signed = 0


\* the Number x has a fraction
HasFraction(x) == MathFloor(x) # x

\* the fee rate and the expiration of the order of params
FeeRateOf(params) ==
  IF params.feeRateBps = <<>> THEN FromInt(DEFAULT_FEE_RATE_BPS) ELSE params.feeRateBps[1]

ExpirationOf(params) ==
  IF params.expiration = <<>> THEN DEFAULT_EXPIRATION(loadedAt) ELSE params.expiration[1]

\* the amounts the calculator gives for the order of params
AmountsOf(params) ==
  IF params.side = "BUY"
  THEN calculateBuyAmounts(params.size, alignPrice(params.price, params.tickSize),
                           params.tickSize)
  ELSE calculateSellAmounts(params.size, alignPrice(params.price, params.tickSize),
                            params.tickSize)

\* C16: buildSignedOrder fails rather than truncating when a numeric field is
\* no integer: with a fee rate or an expiration that has a fraction the call
\* throws a RangeError before anything is signed, and an order that is
\* returned carries the fee rate and the expiration exactly and the amounts
\* exactly as the calculator rounded them down.
C16_FailsRatherThanTruncates ==
  \A c \in Callers :
    OrderCall(c) /\ getSignerAddress(calls[c].signer).ok =>
      /\ HasFraction(FeeRateOf(calls[c].params)) \/ HasFraction(ExpirationOf(calls[c].params))
           => /\ calls[c].pc = "threw"
              /\ calls[c].error.name = "RangeError"
              /\ calls[c].signed = 0
      /\ calls[c].pc = "returned"
           => /\ calls[c].value.feeRateBps = NatToString(FloorNat(FeeRateOf(calls[c].params)))
              /\ FromNat(FloorNat(FeeRateOf(calls[c].params))) = FeeRateOf(calls[c].params)
              /\ calls[c].value.expiration = NatToString(FloorNat(ExpirationOf(calls[c].params)))
              /\ FromNat(FloorNat(ExpirationOf(calls[c].params))) = ExpirationOf(calls[c].params)
              /\ calls[c].value.makerAmount = AmountsOf(calls[c].params).rawMakerAmt
              /\ calls[c].value.takerAmount = AmountsOf(calls[c].params).rawTakerAmt

\* an order with a fee rate of half a basis point was asked of a private key
\* and refused
C16_Witness ==
  /\ OrderCall(1)
  /\ calls[1].signer.type = "PrivateKeyAccount"
  /\ calls[1].params.feeRateBps = <<Dec(5, 1)>>
  /\ calls[1].pc = "threw"
  /\ calls[1].error.name = "RangeError"


\* the address of the key that signs for signer
KeyAddress(signer) ==
  IF signer.type = "PrivateKeyAccount" THEN signer.address ELSE signer.account

\* C17: in every order buildSignedOrder returns, and in the struct that was
\* signed, signer is the address of the signing key, and maker is the funder
\* address when one was given and the signer's address when none was.
C17_SignerAndMaker ==
  \A c \in Callers :
    OrderCall(c) /\ calls[c].pc = "returned" =>
      /\ calls[c].value.signer = KeyAddress(calls[c].params.signer)
      /\ calls[c].value.signature.account = calls[c].value.signer
      /\ calls[c].value.signature.message.signer = calls[c].value.signer
      /\ calls[c].value.maker = IF calls[c].params.funderAddress # None
                                THEN calls[c].params.funderAddress
                                ELSE calls[c].value.signer
      /\ calls[c].value.signature.message.maker = calls[c].value.maker

\* a wallet client signed an order for the funder 0xF4
C17_Witness ==
  /\ OrderCall(1) /\ calls[1].pc = "returned"
  /\ calls[1].params.signer = WalletClient("0xB2")
  /\ calls[1].params.funderAddress = "0xF4"
  /\ calls[1].value.signer = "0xB2"
  /\ calls[1].value.maker = "0xF4"


\* callers c and d have both been returned an order
TwoOrders(c, d) ==
  /\ c # d
  /\ OrderCall(c) /\ calls[c].pc = "returned"
  /\ OrderCall(d) /\ calls[d].pc = "returned"

Unsigned(order) == [f \in DOMAIN order \ {"signature"} |-> order[f]]

\* the market of the order is a negative-risk market
IsNegRisk(params) == params.negRisk = <<TRUE>>

\* C19: an order is signed under the domain of ORDER_DOMAIN's name, version
\* and chain id whose verifying contract is NEG_RISK_EXCHANGE_ADDRESS exactly
\* when negRisk is true and EXCHANGE_ADDRESS otherwise, so two orders that
\* are the same in every field but are one of each kind have different
\* signatures.
C19_DomainByNegRisk ==
  /\ \A c \in Callers :
       OrderCall(c) /\ calls[c].pc = "returned" =>
         calls[c].value.signature.domain =
           [name |-> "Exchange", version |-> "1", chainId |-> 137,
            verifyingContract |-> IF IsNegRisk(calls[c].params)
                                  THEN "0xC5d563A36AE78145C45a50134d48A1215220f80a"
                                  ELSE "0x4bFb41d5B3570DeFd03C39a9A4D8dE6Bd8B8982E"]
  /\ \A c, d \in Callers :
       /\ TwoOrders(c, d)
       /\ Unsigned(calls[c].value) = Unsigned(calls[d].value)
       /\ IsNegRisk(calls[c].params) # IsNegRisk(calls[d].params)
       => calls[c].value.signature # calls[d].value.signature

\* the same order on the exchange and on the negative-risk exchange
C19_Witness ==
  /\ TwoOrders(1, 2)
  /\ Unsigned(calls[1].value) = Unsigned(calls[2].value)
  /\ ~IsNegRisk(calls[1].params) /\ IsNegRisk(calls[2].params)
  /\ calls[1].value.signature.domain.verifyingContract = EXCHANGE_ADDRESS
  /\ calls[2].value.signature.domain.verifyingContract = NEG_RISK_EXCHANGE_ADDRESS
  /\ calls[1].value.signature.message = calls[2].value.signature.message


\* C20: when no expiration is given, the expiration of the returned order is
\* the time of the call of buildSignedOrder, in seconds, plus 365 days.
C20_DefaultExpirationFromCall ==
  \A c \in Callers :
    OrderCall(c) /\ calls[c].pc = "returned" /\ calls[c].params.expiration = <<>> =>
      calls[c].value.expiration =
        NatToString(BFromInt(calls[c].at \div 1000 + 60 * 60 * 24 * 365))


\* the decimal numeral of the Number x, an integer
Decimal(x) == NatToString(FloorNat(x))

\* C21: in every order buildSignedOrder returns, a fee rate, taker, signature
\* type, expiration or nonce that was given is the one of the order, 0
\* included; a fee rate left out is 50, a taker left out the zero address, a
\* signature type left out 1, and a nonce left out the number of 32 random
\* bytes of its own.
C21_OptionalParameters ==
  \A c \in Callers :
    OrderCall(c) /\ calls[c].pc = "returned" =>
      /\ calls[c].value.feeRateBps =
           IF calls[c].params.feeRateBps = <<>> THEN <<"5", "0">>
           ELSE Decimal(calls[c].params.feeRateBps[1])
      /\ calls[c].value.taker =
           IF calls[c].params.taker = None THEN "0x0000000000000000000000000000000000000000"
           ELSE calls[c].params.taker
      /\ calls[c].value.signatureType =
           IF calls[c].params.signatureType = <<>> THEN <<"1">>
           ELSE Decimal(calls[c].params.signatureType[1])
      /\ calls[c].params.expiration # <<>>
           => calls[c].value.expiration = Decimal(calls[c].params.expiration[1])
      /\ calls[c].params.nonce # <<>> => calls[c].value.nonce = calls[c].params.nonce
      /\ calls[c].params.nonce = <<>>
           => /\ calls[c].bytes[2] \in RandomBytes
              /\ calls[c].value.nonce = generateSalt(calls[c].bytes[2])
              /\ calls[c].bytes[2][32] = 1 => calls[c].value.nonce = <<"1">>

\* an order with fee rate 100, expiration 0 and nonce "0" has been returned
\* as it was asked for
C21_Witness ==
  /\ OrderCall(1) /\ calls[1].pc = "returned"
  /\ calls[1].params.expiration = <<Zero>>
  /\ calls[1].params.nonce = <<"0">>
  /\ calls[1].value.expiration = <<"0">>
  /\ calls[1].value.nonce = <<"0">>
  /\ calls[1].value.feeRateBps = <<"1", "0", "0">>
  /\ calls[1].value.signatureType = <<"1">>


\* the struct that was signed for the order returned to caller c
SignedStruct(c) == calls[c].value.signature.message

\* C22: every numeric field of an order buildSignedOrder returns is a
\* decimal-integer string, and the integer it denotes is the one in the
\* struct that was signed; side is "0" for BUY and "1" for SELL.
C22_DecimalIntegerFields ==
  \A c \in Callers :
    OrderCall(c) /\ calls[c].pc = "returned" =>
      /\ \A f \in {"salt", "tokenId", "makerAmount", "takerAmount", "expiration", "nonce",
                   "feeRateBps", "side", "signatureType"} :
           IsDecimalInteger(calls[c].value[f])
      /\ \A f \in {"salt", "tokenId", "makerAmount", "takerAmount", "expiration", "nonce",
                   "feeRateBps"} :
           calls[c].value[f] = SignedStruct(c)[f]
      /\ calls[c].value.side = IF calls[c].params.side = "BUY" THEN <<"0">> ELSE <<"1">>
      /\ calls[c].value.side = NatToString(BFromInt(SignedStruct(c).side))
      /\ calls[c].value.signatureType = Decimal(SignedStruct(c).signatureType)


\* C29: for a price in [0,1] the amounts of the order buildSignedOrder
\* returns, which aligns the price and then calls an amount function that
\* aligns it again, are the amounts calculateBuyAmounts or
\* calculateSellAmounts gives when called once with the caller's price.
C29_AlignedTwiceAsOnce ==
  \A c \in Callers :
    /\ OrderCall(c) /\ calls[c].pc = "returned"
    /\ FLe(calls[c].params.price, FromInt(1))
    => LET once == IF calls[c].params.side = "BUY"
                   THEN calculateBuyAmounts(calls[c].params.size, calls[c].params.price,
                                            calls[c].params.tickSize)
                   ELSE calculateSellAmounts(calls[c].params.size, calls[c].params.price,
                                             calls[c].params.tickSize)
       IN  /\ calls[c].value.makerAmount = once.rawMakerAmt
           /\ calls[c].value.takerAmount = once.rawTakerAmt


(***************************************************************************)
(* Properties of the L2 request signer.                                    *)
(***************************************************************************)
\* caller c has been returned the L2 headers of a request
L2Call(c) == calls[c].op = "createL2Headers" /\ calls[c].pc = "returned"

\* the timestamp of the headers, as a Number
TimestampOf(headers) == FromNat(Units(headers.POLY_TIMESTAMP))

\* the body of a request as it is sent: none is the empty one
BodyOf(params) == IF params.body = <<>> THEN <<>> ELSE params.body[1]

\* the method in capitals: the methods of L2Requests are GET and get
InCapitals(method) ==
  IF method \in { <<"G", "E", "T">>, <<"g", "e", "t">> } THEN <<"G", "E", "T">> ELSE method

\* C23: buildL2Message(timestamp, method, path, body) is the decimal
\* timestamp, the method in capitals, the path and the body, in this order
\* and with nothing between them, and a body that is left out or empty adds
\* nothing; the signature of the headers is the one of this string.
C23_L2MessageIsConcatenation ==
  \A c \in Callers :
    L2Call(c) =>
      LET expected == calls[c].value.POLY_TIMESTAMP \o InCapitals(calls[c].params.method)
                        \o calls[c].params.requestPath \o BodyOf(calls[c].params)
      IN  /\ buildL2Message(TimestampOf(calls[c].value), calls[c].params.method,
                            calls[c].params.requestPath, calls[c].params.body) = expected
          /\ calls[c].value.POLY_SIGNATURE
               = signHmac(expected, calls[c].params.creds.secret).value.signature
          /\ Len(expected) = Len(calls[c].value.POLY_TIMESTAMP) + 3
                               + Len(calls[c].params.requestPath) + Len(BodyOf(calls[c].params))

\* get /order with an empty body has been signed at 1700000000 as
\* "1700000000GET/order"
C23_Witness ==
  /\ L2Call(1)
  /\ calls[1].params.method = <<"g", "e", "t">>
  /\ calls[1].params.requestPath = <<"/", "o", "r", "d", "e", "r">>
  /\ calls[1].params.body = << <<>> >>
  /\ calls[1].params.timestamp = <<FromInt(1700000000)>>
  /\ buildL2Message(FromInt(1700000000), calls[1].params.method,
                    calls[1].params.requestPath, calls[1].params.body)
       = <<"1", "7", "0", "0", "0", "0", "0", "0", "0", "0", "G", "E", "T",
           "/", "o", "r", "d", "e", "r">>


\* caller c has been returned L1 headers by createL1Headers
L1Call(c) == calls[c].op = "createL1Headers" /\ calls[c].pc = "returned"

\* C27: a timestamp, and for L1 a nonce, that the caller gives is the one of
\* the headers, POLY_TIMESTAMP and POLY_NONCE being its decimal numeral, and
\* one is generated only when none is given: the time of the call, in
\* milliseconds for L1 and in seconds for L2, and a random nonce.
C27_SuppliedTimestampAndNonce ==
  \A c \in Callers :
    /\ L1Call(c) =>
         /\ calls[c].value.POLY_TIMESTAMP =
              IF calls[c].params.timestamp # <<>> THEN Decimal(calls[c].params.timestamp[1])
              ELSE NatToString(BFromInt(calls[c].at))
         /\ calls[c].value.POLY_NONCE =
              IF calls[c].params.nonce # <<>> THEN Decimal(calls[c].params.nonce[1])
              ELSE Decimal(generateNonce(calls[c].params.random))
    /\ L2Call(c) =>
         calls[c].value.POLY_TIMESTAMP =
           IF calls[c].params.timestamp # <<>> THEN Decimal(calls[c].params.timestamp[1])
           ELSE NatToString(BFromInt(calls[c].at \div 1000))


\* caller c has called createL2Headers and the call is over
L2Done(c) == calls[c].op = "createL2Headers" /\ Done(calls[c])

\* C24: two calls of createL2Headers that are given the same address,
\* credentials, method, path, body and timestamp end alike, with the same
\* headers and the same signature in them, whatever the time of each call.
C24_L2SigningDeterministic ==
  \A c, d \in Callers :
    /\ L2Done(c) /\ L2Done(d)
    /\ calls[c].params = calls[d].params
    /\ calls[c].params.timestamp # <<>>
    => /\ calls[c].pc = calls[d].pc
       /\ calls[c].value = calls[d].value
       /\ calls[c].error = calls[d].error


\* the four signed parts of the request of caller c as the caller sends them
\* (the timestamp is the one of the headers), and as they are told apart:
\* the method in capitals, and no body as the empty body
L2Parts(c) ==
  <<calls[c].params.method, calls[c].params.requestPath,
    calls[c].value.POLY_TIMESTAMP, calls[c].params.body>>

L2PartsApart(c) ==
  <<InCapitals(calls[c].params.method), calls[c].params.requestPath,
    calls[c].value.POLY_TIMESTAMP, BodyOf(calls[c].params)>>

\* the string the request of caller c is signed over
L2Message(c) ==
  calls[c].value.POLY_TIMESTAMP \o InCapitals(calls[c].params.method)
    \o calls[c].params.requestPath \o BodyOf(calls[c].params)

SameSecret(c, d) ==
  /\ L2Call(c) /\ L2Call(d)
  /\ calls[c].params.creds.secret = calls[d].params.creds.secret

\* C25 as stated: under one secret, two requests that differ in method, path,
\* timestamp or body are signed over different strings and get different
\* signatures.
C25_AnyDifferenceChangesSignature ==
  \A c, d \in Callers :
    SameSecret(c, d) /\ L2Parts(c) # L2Parts(d) =>
      /\ L2Message(c) # L2Message(d)
      /\ calls[c].value.POLY_SIGNATURE # calls[d].value.POLY_SIGNATURE

\* C25: under one secret, two requests that differ in exactly one of method
\* (by more than the case of its letters), path, timestamp and body (no body
\* counting as the empty body) are signed over different strings and get
\* different signatures.
C25_OneDifferenceChangesSignature ==
  \A c, d \in Callers :
    SameSecret(c, d)
      /\ Cardinality({ i \in 1..4 : L2PartsApart(c)[i] # L2PartsApart(d)[i] }) = 1 =>
      /\ L2Message(c) # L2Message(d)
      /\ calls[c].value.POLY_SIGNATURE # calls[d].value.POLY_SIGNATURE

\* GET /order has been signed at 1700000000 under one secret with the body
\* "s" and with the empty body, and the two signatures differ
C25_Witness ==
  /\ SameSecret(1, 2)
  /\ calls[1].value.POLY_TIMESTAMP = calls[2].value.POLY_TIMESTAMP
  /\ calls[1].params.timestamp = <<FromInt(1700000000)>>
  /\ calls[1].params.method = calls[2].params.method
  /\ calls[1].params.requestPath = calls[2].params.requestPath
  /\ calls[1].params.body = << <<"s">> >>
  /\ calls[2].params.body = << <<>> >>
  /\ calls[1].value.POLY_SIGNATURE # calls[2].value.POLY_SIGNATURE


\* the standard base64 encoding of the HMAC of the request of caller c
L2Digest(c) ==
  btoa(HmacSha256(base64ToBytes(calls[c].params.creds.secret).value.bytes,
                  TextEncode(L2Message(c))))

\* C26: the signature signHmac returns holds no "+" and no "/": it is the
\* standard base64 encoding of the HMAC with "-" for every "+" and "_" for
\* every "/", every other character as it is, and the "=" that pads the 32
\* bytes at its end.
C26_SignatureUrlSafe ==
  \A c \in Callers :
    L2Call(c) =>
      LET Safe(plain, signature) ==
            /\ Len(signature) = Len(plain)
            /\ \A i \in 1..Len(signature) :
                 /\ signature[i] \notin {"+", "/"}
                 /\ signature[i] = CASE plain[i] = "+" -> "-"
                                     [] plain[i] = "/" -> "_"
                                     [] OTHER -> plain[i]
            /\ Len(signature) = 44 /\ signature[44] = "="
      IN  Safe(L2Digest(c), calls[c].value.POLY_SIGNATURE)

\* a signature has been returned whose standard encoding holds "+" and "/":
\* it holds "-" and "_" in their places and ends with "="
C26_Witness ==
  \E c \in Callers :
    /\ L2Call(c)
    /\ \E i, j \in 1..44 :
         /\ L2Digest(c)[i] = "+" /\ calls[c].value.POLY_SIGNATURE[i] = "-"
         /\ L2Digest(c)[j] = "/" /\ calls[c].value.POLY_SIGNATURE[j] = "_"
    /\ calls[c].value.POLY_SIGNATURE[44] = "="


(***************************************************************************)
(* Properties of the requests for credentials.                             *)
(***************************************************************************)
\* the request caller c sends in this step, when it sends one
SendsRequest(c) == Len(calls'[c].requests) = Len(calls[c].requests) + 1

Sent(c) == calls'[c].requests[Len(calls'[c].requests)]

\* C28: every create request and every derive request carries an L1
\* attestation built for it: its timestamp is the time at which the request is
\* sent, its nonce is one the random source gives then, the signature covers
\* the two, and so the derive request that follows a failed create carries
\* its own attestation and not the one of the create request.
C28_FreshAttestationPerRequest ==
  [][\A c \in Callers :
       SendsRequest(c) =>
         /\ Sent(c).headers.POLY_TIMESTAMP = NumberToString(getTimestamp(now))
         /\ \E random \in Randoms :
              Sent(c).headers.POLY_NONCE = NumberToString(generateNonce(random))
         /\ Sent(c).headers.POLY_SIGNATURE.message.timestamp = Sent(c).headers.POLY_TIMESTAMP
         /\ NatToString(Sent(c).headers.POLY_SIGNATURE.message.nonce)
              = Sent(c).headers.POLY_NONCE
         /\ Sent(c).path = IF calls[c].pc = "createApiKey" THEN "/auth/api-key"
                           ELSE "/auth/derive-api-key"]_vars

\* a create request failed and the derive request that followed, 30 seconds
\* later and with another nonce, carries another attestation
C28_Witness ==
  \E c \in Callers :
    /\ Len(calls[c].requests) = 2
    /\ calls[c].requests[1].path = "/auth/api-key"
    /\ calls[c].requests[2].path = "/auth/derive-api-key"
    /\ calls[c].requests[1].headers.POLY_TIMESTAMP = <<"0">>
    /\ calls[c].requests[2].headers.POLY_TIMESTAMP = <<"3", "0", "0", "0", "0">>
    /\ calls[c].requests[1].headers.POLY_NONCE # calls[c].requests[2].headers.POLY_NONCE
    /\ calls[c].requests[1].headers.POLY_SIGNATURE
         # calls[c].requests[2].headers.POLY_SIGNATURE


(***************************************************************************)
(* Properties of the headers.                                              *)
(***************************************************************************)
\* the L1 headers say what their signature covers
DescribesSigned(headers) ==
  /\ headers.POLY_ADDRESS = headers.POLY_SIGNATURE.message.address
  /\ headers.POLY_ADDRESS = headers.POLY_SIGNATURE.account
  /\ headers.POLY_TIMESTAMP = headers.POLY_SIGNATURE.message.timestamp
  /\ headers.POLY_NONCE = NatToString(headers.POLY_SIGNATURE.message.nonce)

\* C30: the headers say what was signed.  The address, the timestamp and the
\* nonce of L1 headers, returned by createL1Headers or sent with a request,
\* are those of the message their signature covers; the timestamp of L2
\* headers is the one the signed string begins with, and their key and
\* passphrase are those of the credentials whose secret signed it.
C30_HeadersDescribeSigned ==
  \A c \in Callers :
    /\ L1Call(c) => DescribesSigned(calls[c].value)
    /\ \A i \in 1..Len(calls[c].requests) : DescribesSigned(calls[c].requests[i].headers)
    /\ L2Call(c) =>
         /\ calls[c].value.POLY_SIGNATURE
              = signHmac(calls[c].value.POLY_TIMESTAMP
                           \o toUpperCase(calls[c].params.method)
                           \o calls[c].params.requestPath \o BodyOf(calls[c].params),
                         calls[c].params.creds.secret).value.signature
         /\ calls[c].value.POLY_API_KEY = calls[c].params.creds.key
         /\ calls[c].value.POLY_PASSPHRASE = calls[c].params.creds.passphrase
         /\ calls[c].value.POLY_ADDRESS = calls[c].params.address

\* createL1Headers has been given the nonce 0 and the timestamp 1234: the
\* headers hold the timestamp and a generated nonce, the one that was signed
C30_Witness ==
  \E c \in Callers :
    /\ L1Call(c)
    /\ calls[c].params.nonce = <<Zero>>
    /\ calls[c].params.timestamp = <<FromInt(1234)>>
    /\ calls[c].value.POLY_TIMESTAMP = <<"1", "2", "3", "4">>
    /\ calls[c].value.POLY_NONCE # <<"0">>
    /\ DescribesSigned(calls[c].value)

=============================================================================
